---- MODULE Spec2Model ----
(***************************************************************************)
(* Occurrence scheduling of the smart-rounder application: the alarm store *)
(* (stores/useAlarmStore.ts), the calendar store's event operations and    *)
(* the notification context, with the notification dispatcher              *)
(* (expo-notifications) and the SQLite store as collaborators.             *)
(***************************************************************************)
EXTENDS Integers, Sequences, FiniteSets, TLC

(***************************************************************************)
(* Bounds of the model.                                                    *)
(***************************************************************************)
MaxDays == 2

(***************************************************************************)
(* Dates.  A JavaScript Date in local time is a record of a day number     *)
(* (day 0 is a Sunday), hour, minute and second; the second stands for     *)
(* everything below the minute.                                            *)
(***************************************************************************)
Null == [isNull |-> TRUE]

MkDate(d, h, m, s) == [day |-> d, hour |-> h, minute |-> m, second |-> s]

\* Date.prototype.getTime, in seconds: the order of instants.
getTime(t) == ((t.day * 24 + t.hour) * 60 + t.minute) * 60 + t.second

\* new Date(ms): the local date of an instant.
FromTime(x) ==
    MkDate(x \div 86400, (x \div 3600) % 24, (x \div 60) % 60, x % 60)

getDay(t) == t.day % 7

\* date.setHours(h, m, 0, 0)
setHours(t, h, m) == [t EXCEPT !.hour = h, !.minute = m, !.second = 0]

\* date.setDate(date.getDate() + n)
addDays(t, n) == [t EXCEPT !.day = @ + n]

(***************************************************************************)
(* getNextAlarmDate (useAlarmStore.ts 141-213).                            *)
(***************************************************************************)
\* A plausible slip: the minute test without the equality.
TimePassedStrict(alarm, now) ==
    \/ now.hour > alarm.hour
    \/ now.hour = alarm.hour /\ now.minute > alarm.minute

\* currentHour > alarm.hour || (currentHour === alarm.hour && currentMinute >= alarm.minute)
TimePassed(alarm, now) ==
    \/ now.hour > alarm.hour
    \/ now.hour = alarm.hour /\ now.minute >= alarm.minute

\* A plausible slip: the comparator without the next-week cases.
compareDaysPlain(a, b, alarm, now) ==
    ((a - getDay(now) + 7) % 7) - ((b - getDay(now) + 7) % 7)

\* The comparator handed to sort (lines 162-192).
compareDays(a, b, alarm, now) ==
    LET currentDay == getDay(now)
        daysFromNowA == (a - currentDay + 7) % 7
        daysFromNowB == (b - currentDay + 7) % 7
    IN  IF daysFromNowA = 0 /\ daysFromNowB = 0
        THEN IF TimePassed(alarm, now) THEN 1 ELSE -1
        ELSE IF daysFromNowA = 0 /\ TimePassed(alarm, now)
        THEN daysFromNowA + 7 - daysFromNowB
        ELSE IF daysFromNowB = 0 /\ TimePassed(alarm, now)
        THEN daysFromNowA - (daysFromNowB + 7)
        ELSE daysFromNowA - daysFromNowB

\* Array.prototype.sort with the comparator: a stable insertion sort, the
\* element x moving left past every element it compares below.
RECURSIVE InsertDay(_, _, _, _)
InsertDay(sorted, x, alarm, now) ==
    IF sorted = <<>> THEN <<x>>
    ELSE LET n == Len(sorted)
         IN  IF compareDays(x, sorted[n], alarm, now) < 0
             THEN Append(InsertDay(SubSeq(sorted, 1, n - 1), x, alarm, now), sorted[n])
             ELSE Append(sorted, x)

RECURSIVE SortDays(_, _, _)
SortDays(days, alarm, now) ==
    IF days = <<>> THEN <<>>
    ELSE InsertDay(SortDays(SubSeq(days, 1, Len(days) - 1), alarm, now),
                   days[Len(days)], alarm, now)

\* A plausible slip: the stored date used as it is, without the alarm's time.
OneTimeAlarmDateRaw(alarm) == alarm.date

\* new Date(alarm.date) with setHours(alarm.hour, alarm.minute, 0, 0).
OneTimeAlarmDate(alarm) == setHours(alarm.date, alarm.hour, alarm.minute)

\* A plausible slip: today's weekday always counts as today.
DaysToAddSameWeek(nextDay, alarm, now) == (nextDay - getDay(now) + 7) % 7

\* Lines 194-204: the offset of nextDay, a week when it is today and the
\* alarm's time has passed.
DaysToAdd(nextDay, alarm, now) ==
    LET daysToAdd == (nextDay - getDay(now) + 7) % 7
    IN  IF daysToAdd = 0 /\ TimePassed(alarm, now) THEN 7 ELSE daysToAdd

getNextAlarmDate(alarm, now) ==
    IF alarm.isOneTime /\ alarm.date # Null
    THEN IF getTime(OneTimeAlarmDate(alarm)) > getTime(now)
         THEN OneTimeAlarmDate(alarm)
         ELSE Null
    ELSE IF ~alarm.isOneTime /\ Len(alarm.days) > 0
    THEN LET sortedDays == SortDays(alarm.days, alarm, now)
             nextDay == sortedDays[1]
             daysToAdd == DaysToAdd(nextDay, alarm, now)
         IN  setHours(addDays(now, daysToAdd), alarm.hour, alarm.minute)
    ELSE Null

(***************************************************************************)
(* The inputs of the calculator.                                           *)
(***************************************************************************)
HourSamples == {0, 8, 9, 10, 23}
MinuteSamples == {0, 30, 59}
SecondSamples == {0, 30}
Weekdays == 0 .. 6

SeqsUpTo(S, n) == UNION {[1 .. k -> S] : k \in 0 .. n}

NowSamples ==
    {MkDate(7 + d, h, m, s) : d \in Weekdays, h \in HourSamples,
                              m \in MinuteSamples, s \in SecondSamples}

DateSamples ==
    {MkDate(d, h, 0, 0) : d \in {6, 7, 8, 13, 14}, h \in {0, 23}}

CalcAlarms ==
    {[hour |-> h, minute |-> m, days |-> ds, isOneTime |-> FALSE, date |-> Null] :
        h \in HourSamples, m \in MinuteSamples, ds \in SeqsUpTo(Weekdays, MaxDays)}
    \cup
    {[hour |-> h, minute |-> m, days |-> ds, isOneTime |-> TRUE, date |-> dt] :
        h \in HourSamples, m \in MinuteSamples, ds \in {<<>>, <<1>>},
        dt \in DateSamples \cup {Null}}


(***************************************************************************)
(* The notification dispatcher (expo-notifications) as the stores use it.  *)
(* A world w holds the dispatcher's armed notifications, its next handle   *)
(* and the log of the calls made to it during the current operation.       *)
(* Handles are positive numbers; 0 is the empty string ''.                 *)
(***************************************************************************)
CancelCall(h) ==
    [op |-> "cancel", handle |-> h, kind |-> "none", id |-> 0, date |-> Null,
     enabled |-> FALSE]

ScheduleCall(h, data, date) ==
    [op |-> "schedule", handle |-> h, kind |-> data.kind, id |-> data.id,
     date |-> date, enabled |-> data.enabled]

IsArmed(w, h) == \E n \in w.armed : n.handle = h

\* Notifications.cancelScheduledNotificationAsync(id): the notification is
\* disarmed; for a handle the dispatcher no longer holds (already delivered or
\* cancelled) the call may throw.
CancelScheduled(w, h, staleThrows) ==
    [w |-> [w EXCEPT !.calls = Append(@, CancelCall(h)),
                     !.armed = {n \in @ : n.handle # h}],
     threw |-> ~IsArmed(w, h) /\ staleThrows]

\* try { for (const id of notificationIds) await cancel(id) } catch { log }:
\* the first throw leaves the loop.
RECURSIVE CancelEach(_, _, _)
CancelEach(w, notificationIds, staleThrows) ==
    IF notificationIds = <<>> THEN w
    ELSE LET r == CancelScheduled(w, Head(notificationIds), staleThrows)
         IN  IF r.threw THEN r.w
             ELSE CancelEach(r.w, Tail(notificationIds), staleThrows)

\* A plausible slip: the old handles left armed.
cancelAlarmNotificationsSkipped(w, notificationIds, staleThrows) == w

cancelAlarmNotifications(w, notificationIds, staleThrows) ==
    CancelEach(w, notificationIds, staleThrows)

cancelEventNotifications(w, notificationIds, staleThrows) ==
    CancelEach(w, notificationIds, staleThrows)

\* scheduleTaskNotification of the notification context: '' while
\* notifications are off or when the dispatcher throws, else the new handle.
scheduleTaskNotification(w, enabledFlag, data, date, scheduleThrows) ==
    IF ~enabledFlag THEN [w |-> w, id |-> 0]
    ELSE IF scheduleThrows
    THEN [w |-> [w EXCEPT !.calls = Append(@, ScheduleCall(0, data, date))], id |-> 0]
    ELSE [w |-> [w EXCEPT !.calls = Append(@, ScheduleCall(w.nextHandle, data, date)),
                          !.armed = @ \cup {[handle |-> w.nextHandle, kind |-> data.kind,
                                             id |-> data.id, date |-> date]},
                          !.nextHandle = @ + 1],
          id |-> w.nextHandle]

(***************************************************************************)
(* The alarm store's scheduling helpers.                                   *)
(***************************************************************************)
AlarmData(alarm) == [kind |-> "alarm", id |-> alarm.id, enabled |-> alarm.enabled]

\* A plausible slip: the request made without the test for no occurrence.
ScheduleNextAlarmUntested(w, alarm, enabledFlag, now, scheduleThrows) ==
    IF ~enabledFlag THEN [w |-> w, ids |-> <<>>]
    ELSE LET r == scheduleTaskNotification(w, enabledFlag, AlarmData(alarm),
                                           getNextAlarmDate(alarm, now), scheduleThrows)
         IN  [w |-> r.w, ids |-> IF r.id # 0 THEN <<r.id>> ELSE <<>>]

\* A plausible slip: for a repeating alarm the occurrence of the following week
\* requested as well (the step lines 256-259 leave undone).
ScheduleNextAlarmAhead(w, alarm, enabledFlag, now, scheduleThrows) ==
    IF ~enabledFlag THEN [w |-> w, ids |-> <<>>]
    ELSE LET nextAlarmDate == getNextAlarmDate(alarm, now)
         IN  IF nextAlarmDate = Null THEN [w |-> w, ids |-> <<>>]
             ELSE LET r == scheduleTaskNotification(w, enabledFlag, AlarmData(alarm),
                                                    nextAlarmDate, scheduleThrows)
                      q == IF ~alarm.isOneTime /\ Len(alarm.days) > 0
                           THEN scheduleTaskNotification(r.w, enabledFlag, AlarmData(alarm),
                                    addDays(nextAlarmDate, 7), scheduleThrows)
                           ELSE [w |-> r.w, id |-> 0]
                  IN  [w |-> q.w,
                       ids |-> (IF r.id # 0 THEN <<r.id>> ELSE <<>>)
                               \o (IF q.id # 0 THEN <<q.id>> ELSE <<>>)]

\* Lines 225-264 of scheduleAlarmNotifications: the part after the enabled test.
ScheduleNextAlarm(w, alarm, enabledFlag, now, scheduleThrows) ==
    IF ~enabledFlag THEN [w |-> w, ids |-> <<>>]
    ELSE LET nextAlarmDate == getNextAlarmDate(alarm, now)
         IN  IF nextAlarmDate = Null THEN [w |-> w, ids |-> <<>>]
             ELSE LET r == scheduleTaskNotification(w, enabledFlag, AlarmData(alarm),
                                                    nextAlarmDate, scheduleThrows)
                  IN  [w |-> r.w, ids |-> IF r.id # 0 THEN <<r.id>> ELSE <<>>]

\* A plausible slip: the request made whatever notificationsEnabled says.
scheduleAlarmNotificationsAnyway(w, alarm, enabledFlag, now, scheduleThrows) ==
    IF ~alarm.enabled THEN [w |-> w, ids |-> <<>>]
    ELSE ScheduleNextAlarm(w, alarm, TRUE, now, scheduleThrows)

scheduleAlarmNotifications(w, alarm, enabledFlag, now, scheduleThrows) ==
    IF ~alarm.enabled THEN [w |-> w, ids |-> <<>>]
    ELSE ScheduleNextAlarm(w, alarm, enabledFlag, now, scheduleThrows)

\* A plausible slip: the rescheduling of updateAlarm without any enabled test.
RescheduleAlarmUnguarded(w, updatedAlarm, enabledFlag, now, scheduleThrows) ==
    ScheduleNextAlarm(w, updatedAlarm, enabledFlag, now, scheduleThrows)

\* updateAlarm 445-450: schedule if the updated alarm is enabled, else [].
RescheduleAlarm(w, updatedAlarm, enabledFlag, now, scheduleThrows) ==
    IF updatedAlarm.enabled
    THEN scheduleAlarmNotifications(w, updatedAlarm, enabledFlag, now, scheduleThrows)
    ELSE [w |-> w, ids |-> <<>>]

(***************************************************************************)
(* The calendar store's scheduling helper.                                 *)
(***************************************************************************)
EventData(event) == [kind |-> "event", id |-> event.id, enabled |-> TRUE]

\* new Date(startDate.getTime() - reminder.minutes * 60 * 1000)
reminderTime(event, minutes) == FromTime(getTime(event.startDate) - minutes * 60)

\* A plausible slip: a reminder due exactly now is still requested.
RECURSIVE ScheduleRemindersLax(_, _, _, _, _, _)
ScheduleRemindersLax(w, event, reminders, enabledFlag, now, scheduleThrows) ==
    IF reminders = <<>> THEN [w |-> w, ids |-> <<>>]
    ELSE LET t == reminderTime(event, Head(reminders))
         IN  IF getTime(t) < getTime(now)
             THEN ScheduleRemindersLax(w, event, Tail(reminders), enabledFlag, now,
                                       scheduleThrows)
             ELSE LET r == scheduleTaskNotification(w, enabledFlag, EventData(event), t,
                                                    scheduleThrows)
                      rest == ScheduleRemindersLax(r.w, event, Tail(reminders),
                                                   enabledFlag, now, scheduleThrows)
                  IN  [w |-> rest.w,
                       ids |-> IF r.id # 0 THEN <<r.id>> \o rest.ids ELSE rest.ids]

\* The loop over event.reminders (lines 158-176).
RECURSIVE ScheduleReminders(_, _, _, _, _, _)
ScheduleReminders(w, event, reminders, enabledFlag, now, scheduleThrows) ==
    IF reminders = <<>> THEN [w |-> w, ids |-> <<>>]
    ELSE LET t == reminderTime(event, Head(reminders))
         IN  IF getTime(t) <= getTime(now)
             THEN ScheduleReminders(w, event, Tail(reminders), enabledFlag, now,
                                    scheduleThrows)
             ELSE LET r == scheduleTaskNotification(w, enabledFlag, EventData(event), t,
                                                    scheduleThrows)
                      rest == ScheduleReminders(r.w, event, Tail(reminders), enabledFlag,
                                                now, scheduleThrows)
                  IN  [w |-> rest.w,
                       ids |-> IF r.id # 0 THEN <<r.id>> \o rest.ids ELSE rest.ids]

scheduleEventNotifications(w, event, enabledFlag, now, scheduleThrows) ==
    IF Len(event.reminders) = 0 THEN [w |-> w, ids |-> <<>>]
    ELSE IF ~enabledFlag THEN [w |-> w, ids |-> <<>>]
    ELSE ScheduleReminders(w, event, event.reminders, enabledFlag, now, scheduleThrows)

(***************************************************************************)
(* State.                                                                  *)
(***************************************************************************)
VARIABLES
    now,                  \* the device clock
    notificationsEnabled, \* NotificationProvider's state
    alarms,               \* useAlarmStore: the in-memory list
    dbAlarms,             \* the rows of table alarms
    events,               \* useCalendarStore: the in-memory list
    dbEvents,             \* the rows of table events
    armed,                \* the dispatcher's scheduled notifications
    nextHandle,           \* the dispatcher's next identifier
    nextId,               \* Date.now() of the next created entity
    calls,                \* the dispatcher calls of the last operation
    lastOp,               \* the last operation and how it ended
    lastWrite,            \* how the store answered the last operation's statement
    isLoading,            \* useAlarmStore: isLoading
    error,                \* useAlarmStore: error
    platform,             \* Platform.OS, which getDatabase branches on
    procs,                \* the calls of an overlapping run, in the order they start
    twice,                \* a pair of successive updateAlarm calls
    unsafe,               \* two calls on one alarm have overlapped, or a step failed
    tasks,                \* useTaskStore: tasks
    dbTasks,              \* the rows of table tasks
    categories,           \* useTaskStore: categories
    dbCategories,         \* the rows of table categories
    notes,                \* useNoteStore: notes
    dbNotes,              \* the rows of table notes
    folders,              \* useNoteStore: folders
    dbFolders,            \* the rows of table note_folders
    customCalendars,      \* useCalendarStore: customCalendars
    dbCalendars,          \* the rows of table custom_calendars
    alarmSounds,          \* useAlarmStore: alarmSounds
    dbSounds,             \* the rows of table alarm_sounds
    calcAlarm, calcNow, calcResult, calcPc  \* one call of getNextAlarmDate

sysVars == <<now, notificationsEnabled, alarms, dbAlarms, events, dbEvents, armed,
             nextHandle, nextId, calls, lastOp, lastWrite, isLoading, error>>

\* The variables of the step-by-step runs.
\* The tasks, notes, custom calendars and alarm sounds.
orgVars == <<tasks, dbTasks, categories, dbCategories, notes, dbNotes, folders, dbFolders,
             customCalendars, dbCalendars, alarmSounds, dbSounds>>

runVars == <<platform, procs, twice, unsafe, orgVars>>

calcVars == <<calcAlarm, calcNow, calcResult, calcPc>>

vars == <<sysVars, calcVars, runVars>>

MaxAlarms == 1
MaxTasks == 2
MaxCalendars == 2
MaxContainers == 2
MaxNotes == 2
MaxBuiltIn == 2
MaxCustom == 1
MaxEvents == 1
MaxIds == 1
MaxHandles == 3
MaxCalls == 3
MaxInFlight == 2
MaxAdds == 1

(***************************************************************************)
(* The inputs of the operations.                                           *)
(***************************************************************************)
SysInstants == <<MkDate(8, 8, 0, 0), MkDate(8, 9, 0, 0)>>

SysHours == {9}
SysDays == {<<>>, <<1>>}
SysDates == {Null, MkDate(8, 0, 0, 0)}

AlarmInputs ==
    [hour : SysHours, minute : {0}, days : SysDays, enabled : BOOLEAN,
     isOneTime : BOOLEAN, date : SysDates, vibrate : {TRUE}]

\* Partial<Alarm>: the fields an update carries.
AlarmUpdates ==
    [enabled : BOOLEAN] \cup [hour : SysHours] \cup [days : SysDays]
    \cup [date : SysDates] \cup [isOneTime : BOOLEAN] \cup [vibrate : {FALSE}]

SysStarts == {MkDate(8, 8, 0, 0), MkDate(8, 10, 0, 0)}
SysReminders == {<<>>, <<0>>, <<60, 0>>}

EventInputs == [startDate : SysStarts, reminders : SysReminders, calendarId : {0}]

\* The task handed to addTask: a deadline, a reminder time, a category.
TaskInputs ==
    [dueDate : {Null, MkDate(8, 10, 0, 0)}, remindAt : {Null, MkDate(8, 9, 0, 0)},
     categoryId : {0}, notificationId : {0}]

\* Partial<Task>
TaskUpdates ==
    [dueDate : {Null, MkDate(8, 10, 0, 0)}] \cup [remindAt : {Null, MkDate(8, 9, 0, 0)}]
    \cup [categoryId : {0, 1}]

\* The calendar handed to addCustomCalendar.
CalendarInputs == [name : {"a"}, isVisible : {TRUE}, isDefault : BOOLEAN]

\* Partial<CustomCalendar>
CalendarUpdates ==
    [name : {"b"}] \cup [isVisible : {FALSE}] \cup [isDefault : BOOLEAN]
    \cup [name : {"b"}, isDefault : {TRUE}]

\* Partial<CalendarEvent>
EventUpdates == [startDate : SysStarts] \cup [reminders : SysReminders]

NoOp ==
    [op |-> "none", kind |-> "none", id |-> 0, ok |-> TRUE, touches |-> FALSE,
     resched |-> FALSE, pre |-> <<>>]

\* error: null, or the message of the error the operation ended with.
NoError == "null"
AlarmNotFound == "Alarm not found"
SoundNotFound == "Sound not found"
CannotDeleteBuiltIn == "Cannot delete built-in sounds"
SqlError == "SQL error"

\* A call that has not started.
NoProc ==
    [pc |-> "idle", op |-> "none", alarmId |-> 0, data |-> <<>>, alarms |-> <<>>,
     alarmIndex |-> 0, entity |-> <<>>, pre |-> <<>>, ids |-> <<>>]

\* Nothing loaded yet in the task store, the note store, the calendars and the
\* sounds.
InitOrg ==
    /\ tasks = <<>> /\ dbTasks = {}
    /\ categories = <<>> /\ dbCategories = {}
    /\ notes = <<>> /\ dbNotes = {}
    /\ folders = <<>> /\ dbFolders = {}
    /\ customCalendars = <<>> /\ dbCalendars = {}
    /\ alarmSounds = <<>> /\ dbSounds = {}

NoTwice == [pc |-> "free", id |-> 0, data |-> <<>>, ids |-> <<>>, armed |-> {}, clean |-> FALSE]

Init ==
    /\ now = SysInstants[1]
    /\ notificationsEnabled = FALSE
    /\ alarms = <<>>
    /\ dbAlarms = {}
    /\ events = <<>>
    /\ dbEvents = {}
    /\ armed = {}
    /\ nextHandle = 1
    /\ nextId = 1
    /\ calls = <<>>
    /\ lastOp = NoOp
    /\ lastWrite = "none"
    /\ isLoading = FALSE
    /\ error = NoError
    /\ platform = "native"
    /\ procs = [slot \in 1 .. MaxCalls |-> NoProc]
    /\ twice = NoTwice
    /\ unsafe = FALSE
    /\ InitOrg
    /\ calcAlarm = CHOOSE a \in CalcAlarms : TRUE
    /\ calcNow = CHOOSE t \in NowSamples : TRUE
    /\ calcResult = Null
    /\ calcPc = "idle"

(***************************************************************************)
(* Store rows.                                                             *)
(***************************************************************************)
\* value && value.length > 0 ? JSON.stringify(value) : null
SqlList(v) == IF Len(v) > 0 THEN [isNull |-> FALSE, json |-> v]
              ELSE [isNull |-> TRUE, json |-> <<>>]

\* column ? JSON.parse(column) : []
ParseList(c) == IF c.isNull THEN <<>> ELSE c.json

alarmRow(alarm) ==
    [id |-> alarm.id, hour |-> alarm.hour, minute |-> alarm.minute,
     days |-> SqlList(alarm.days), enabled |-> IF alarm.enabled THEN 1 ELSE 0,
     isOneTime |-> IF alarm.isOneTime THEN 1 ELSE 0, date |-> alarm.date,
     vibrate |-> IF alarm.vibrate THEN 1 ELSE 0,
     notificationIds |-> SqlList(alarm.notificationIds)]

\* value ? JSON.stringify(value) : null, the list being always defined here
eventRow(event) ==
    [id |-> event.id, startDate |-> event.startDate, calendarId |-> event.calendarId,
     reminders |-> [isNull |-> FALSE, json |-> event.reminders],
     notificationIds |-> [isNull |-> FALSE, json |-> event.notificationIds]]

\* The INSERT of addTask: x || null for the optional columns.
taskRow(task) ==
    [id |-> task.id, dueDate |-> task.dueDate, remindAt |-> task.remindAt,
     categoryId |-> task.categoryId, notificationId |-> task.notificationId]

\* value ? 1 : 0
SqlBool(value) == IF value THEN 1 ELSE 0

\* The INSERT of addCustomCalendar.
calendarRow(calendar) ==
    [id |-> calendar.id, name |-> calendar.name, isVisible |-> SqlBool(calendar.isVisible),
     isDefault |-> SqlBool(calendar.isDefault)]

\* The values of updateCustomCalendar's dynamic UPDATE: isVisible and isDefault
\* as 1 / 0, the other keys as they are.
calendarValues(updatedCalendarData) ==
    [f \in DOMAIN updatedCalendarData |->
        IF f \in {"isVisible", "isDefault"} THEN SqlBool(updatedCalendarData[f])
        ELSE updatedCalendarData[f]]

\* UPDATE custom_calendars SET isDefault = 0 WHERE userId = ?
ClearDefault(rows) == {[r EXCEPT !.isDefault = 0] : r \in rows}

\* UPDATE ... SET key = ? (one per key of the update) WHERE id = ?
UpdateFields(rows, id, values) ==
    {IF r.id = id
     THEN [f \in DOMAIN r |-> IF f \in DOMAIN values THEN values[f] ELSE r[f]]
     ELSE r : r \in rows}

\* UPDATE ... WHERE id = ?
UpdateRow(rows, id, row) == {IF r.id = id THEN row ELSE r : r \in rows}

\* DELETE ... WHERE id = ?
DeleteRow(rows, id) == {r \in rows : r.id # id}

(***************************************************************************)
(* Helpers on the in-memory lists.                                         *)
(***************************************************************************)
\* Array.prototype.findIndex, 0 for -1
findIndex(list, id) ==
    IF \E i \in 1 .. Len(list) : list[i].id = id
    THEN CHOOSE i \in 1 .. Len(list) :
             list[i].id = id /\ \A j \in 1 .. (i - 1) : list[j].id # id
    ELSE 0

\* list.filter(x => x.id !== id)
RECURSIVE filterOut(_, _)
filterOut(list, id) ==
    IF list = <<>> THEN <<>>
    ELSE IF Head(list).id = id THEN filterOut(Tail(list), id)
    ELSE <<Head(list)>> \o filterOut(Tail(list), id)

\* { ...entity, ...update }
merge(entity, update) ==
    [f \in DOMAIN entity |-> IF f \in DOMAIN update THEN update[f] ELSE entity[f]]

World == [armed |-> armed, nextHandle |-> nextHandle, calls |-> <<>>]

\* The outcomes the environment can give an operation: a cancel can throw only
\* if one of the handles is no longer held by the dispatcher, a schedule request
\* is only made while notifications are on.
StaleOutcomes(notificationIds) ==
    IF \E i \in 1 .. Len(notificationIds) : ~IsArmed(World, notificationIds[i])
    THEN BOOLEAN ELSE {FALSE}

ScheduleOutcomes == IF notificationsEnabled THEN BOOLEAN ELSE {FALSE}

StoredIds(list, id) ==
    IF findIndex(list, id) = 0 THEN <<>> ELSE list[findIndex(list, id)].notificationIds

SetWorld(w) ==
    /\ w.nextHandle <= MaxHandles + 1
    /\ armed' = w.armed
    /\ nextHandle' = w.nextHandle
    /\ calls' = w.calls

\* A plausible slip: the error callback that forgets isLoading.
SettleStillLoading(write, err) ==
    /\ lastWrite' = write
    /\ isLoading' = (write = "failed")
    /\ error' = err

\* How an operation of the alarm store ends: the answer of the store to its
\* statement, isLoading back to false, and the error it set (null at the start).
Settle(write, err) ==
    /\ lastWrite' = write
    /\ isLoading' = FALSE
    /\ error' = err

Answer(dbFails) == IF dbFails THEN "failed" ELSE "ok"

\* An operation outside the alarm store.
Outside(write) ==
    /\ lastWrite' = write
    /\ UNCHANGED <<isLoading, error>>

\* The record of an operation: its name, the entity, whether it succeeded, whether
\* its update carried a schedule-affecting field, whether it rescheduled, and the
\* handles stored for the entity when it started.
Op(name, kind, id, ok, touches, resched, pre) ==
    [op |-> name, kind |-> kind, id |-> id, ok |-> ok, touches |-> touches,
     resched |-> resched, pre |-> pre]

(***************************************************************************)
(* The alarm store's operations (useAlarmStore.ts).                        *)
(***************************************************************************)
AddAlarm ==
    \E input \in AlarmInputs, dbFails \in BOOLEAN, scheduleThrows \in ScheduleOutcomes :
        /\ nextId <= MaxIds
        /\ Len(alarms) < MaxAlarms
        /\ LET created == [id |-> nextId, hour |-> input.hour, minute |-> input.minute,
                           days |-> input.days, enabled |-> input.enabled,
                           isOneTime |-> input.isOneTime, date |-> input.date,
                           vibrate |-> input.vibrate, notificationIds |-> <<>>]
               r == IF created.enabled
                    THEN scheduleAlarmNotifications(World, created, notificationsEnabled,
                                                    now, scheduleThrows)
                    ELSE [w |-> World, ids |-> <<>>]
               newAlarm == [created EXCEPT !.notificationIds = r.ids]
           IN  /\ SetWorld(r.w)
               /\ IF dbFails
                  THEN UNCHANGED <<alarms, dbAlarms>>
                  ELSE /\ alarms' = Append(alarms, newAlarm)
                       /\ dbAlarms' = dbAlarms \cup {alarmRow(newAlarm)}
               /\ lastOp' = Op("addAlarm", "alarm", nextId, ~dbFails, TRUE,
                               created.enabled, <<>>)
               /\ Settle(Answer(dbFails), IF dbFails THEN SqlError ELSE NoError)
        /\ nextId' = nextId + 1
        /\ UNCHANGED <<now, notificationsEnabled, events, dbEvents, calcVars, runVars>>

ScheduleKeys == {"enabled", "hour", "minute", "days", "date", "isOneTime"}

\* A plausible slip: every update reschedules.
ShouldRescheduleAlways(updatedAlarmData) == TRUE

\* updateAlarm 431-438: 'enabled' in updatedAlarmData || 'hour' in ... .
ShouldReschedule(updatedAlarmData) == DOMAIN updatedAlarmData \cap ScheduleKeys # {}

\* updateAlarm(alarmId, updatedAlarmData), called as operation opName.
UpdateAlarmAs(opName, alarmId, updatedAlarmData, dbFails, staleThrows, scheduleThrows) ==
    LET alarmIndex == findIndex(alarms, alarmId)
    IN  IF alarmIndex = 0
        THEN /\ lastOp' = Op(opName, "alarm", alarmId, FALSE, FALSE, FALSE, <<>>)
             /\ Settle("none", AlarmNotFound)
             /\ calls' = <<>>
             /\ UNCHANGED <<alarms, dbAlarms, armed, nextHandle>>
        ELSE LET alarm == alarms[alarmIndex]
                 merged == merge(alarm, updatedAlarmData)
                 touches == DOMAIN updatedAlarmData \cap ScheduleKeys # {}
                 resched == ShouldReschedule(updatedAlarmData)
                 w1 == IF resched /\ Len(alarm.notificationIds) > 0
                       THEN cancelAlarmNotifications(World, alarm.notificationIds,
                                                     staleThrows)
                       ELSE World
                 r == IF resched
                      THEN RescheduleAlarm(w1, merged, notificationsEnabled, now,
                                           scheduleThrows)
                      ELSE [w |-> w1, ids |-> alarm.notificationIds]
                 updatedAlarm == [merged EXCEPT !.notificationIds = r.ids]
             IN  /\ SetWorld(r.w)
                 /\ IF dbFails
                    THEN UNCHANGED <<alarms, dbAlarms>>
                    ELSE /\ alarms' = [alarms EXCEPT ![alarmIndex] = updatedAlarm]
                         /\ dbAlarms' = UpdateRow(dbAlarms, alarmId, alarmRow(updatedAlarm))
                 /\ lastOp' = Op(opName, "alarm", alarmId, ~dbFails, touches, resched,
                                 alarm.notificationIds)
                 /\ Settle(Answer(dbFails), IF dbFails THEN SqlError ELSE NoError)

UpdateAlarm ==
    \E alarmId \in 1 .. MaxIds, updatedAlarmData \in AlarmUpdates, dbFails \in BOOLEAN :
    \E staleThrows \in StaleOutcomes(StoredIds(alarms, alarmId)),
       scheduleThrows \in ScheduleOutcomes :
        /\ UpdateAlarmAs("updateAlarm", alarmId, updatedAlarmData, dbFails, staleThrows,
                         scheduleThrows)
        /\ UNCHANGED <<now, notificationsEnabled, events, dbEvents, nextId, calcVars, runVars>>

ToggleAlarmEnabled ==
    \E alarmId \in 1 .. MaxIds, dbFails \in BOOLEAN :
    \E staleThrows \in StaleOutcomes(StoredIds(alarms, alarmId)),
       scheduleThrows \in ScheduleOutcomes :
        /\ LET alarmIndex == findIndex(alarms, alarmId)
           IN  IF alarmIndex # 0
               THEN UpdateAlarmAs("toggleAlarmEnabled", alarmId,
                                  [enabled |-> ~alarms[alarmIndex].enabled],
                                  dbFails, staleThrows, scheduleThrows)
               ELSE /\ lastOp' = Op("toggleAlarmEnabled", "alarm", alarmId, TRUE, FALSE,
                                    FALSE, <<>>)
                    /\ Outside("none")
                    /\ calls' = <<>>
                    /\ UNCHANGED <<alarms, dbAlarms, armed, nextHandle>>
        /\ UNCHANGED <<now, notificationsEnabled, events, dbEvents, nextId, calcVars, runVars>>

DeleteAlarm ==
    \E alarmId \in 1 .. MaxIds, dbFails \in BOOLEAN :
    \E staleThrows \in StaleOutcomes(StoredIds(alarms, alarmId)) :
        /\ LET alarmIndex == findIndex(alarms, alarmId)
               pre == IF alarmIndex # 0 THEN alarms[alarmIndex].notificationIds ELSE <<>>
               w1 == IF Len(pre) > 0
                     THEN cancelAlarmNotifications(World, pre, staleThrows)
                     ELSE World
           IN  /\ SetWorld(w1)
               /\ IF dbFails
                  THEN UNCHANGED <<alarms, dbAlarms>>
                  ELSE /\ alarms' = filterOut(alarms, alarmId)
                       /\ dbAlarms' = DeleteRow(dbAlarms, alarmId)
               /\ lastOp' = Op("deleteAlarm", "alarm", alarmId, ~dbFails, FALSE, FALSE, pre)
               /\ Settle(Answer(dbFails), IF dbFails THEN SqlError ELSE NoError)
        /\ UNCHANGED <<now, notificationsEnabled, events, dbEvents, nextId, calcVars, runVars>>

(***************************************************************************)
(* The calendar store's event operations.                                  *)
(***************************************************************************)
AddEvent ==
    \E input \in EventInputs, dbFails \in BOOLEAN, scheduleThrows \in ScheduleOutcomes :
        /\ nextId <= MaxIds
        /\ Len(events) < MaxEvents
        /\ LET created == [id |-> nextId, startDate |-> input.startDate,
                           reminders |-> input.reminders, calendarId |-> input.calendarId,
                           notificationIds |-> <<>>]
               r == IF Len(created.reminders) > 0
                    THEN scheduleEventNotifications(World, created, notificationsEnabled,
                                                    now, scheduleThrows)
                    ELSE [w |-> World, ids |-> <<>>]
               newEvent == [created EXCEPT !.notificationIds = r.ids]
           IN  /\ SetWorld(r.w)
               /\ IF dbFails
                  THEN UNCHANGED <<events, dbEvents>>
                  ELSE /\ events' = Append(events, newEvent)
                       /\ dbEvents' = dbEvents \cup {eventRow(newEvent)}
               /\ lastOp' = Op("addEvent", "event", nextId, ~dbFails, TRUE,
                               Len(created.reminders) > 0, <<>>)
               /\ Outside(Answer(dbFails))
        /\ nextId' = nextId + 1
        /\ UNCHANGED <<now, notificationsEnabled, alarms, dbAlarms, calcVars, runVars>>

\* updatedEventData.reminders || updatedEventData.startDate
TouchesEventSchedule(updatedEventData) ==
    "reminders" \in DOMAIN updatedEventData \/ "startDate" \in DOMAIN updatedEventData

\* (event.notificationIds && event.notificationIds.length > 0) &&
\* (updatedEventData.reminders || updatedEventData.startDate)
ShouldRescheduleEvent(event, updatedEventData) ==
    Len(event.notificationIds) > 0 /\ TouchesEventSchedule(updatedEventData)

UpdateEvent ==
    \E eventId \in 1 .. MaxIds, updatedEventData \in EventUpdates, dbFails \in BOOLEAN :
    \E staleThrows \in StaleOutcomes(StoredIds(events, eventId)),
       scheduleThrows \in ScheduleOutcomes :
        /\ LET eventIndex == findIndex(events, eventId)
           IN  IF eventIndex = 0
               THEN /\ lastOp' = Op("updateEvent", "event", eventId, FALSE, FALSE, FALSE,
                                    <<>>)
                    /\ Outside("none")
                    /\ calls' = <<>>
                    /\ UNCHANGED <<events, dbEvents, armed, nextHandle>>
               ELSE LET event == events[eventIndex]
                        merged == merge(event, updatedEventData)
                        resched == ShouldRescheduleEvent(event, updatedEventData)
                        w1 == IF resched
                              THEN cancelEventNotifications(World, event.notificationIds,
                                                            staleThrows)
                              ELSE World
                        r == IF resched
                             THEN scheduleEventNotifications(w1, merged,
                                      notificationsEnabled, now, scheduleThrows)
                             ELSE [w |-> w1, ids |-> event.notificationIds]
                        updatedEvent == [merged EXCEPT !.notificationIds = r.ids]
                    IN  /\ SetWorld(r.w)
                        /\ IF dbFails
                           THEN UNCHANGED <<events, dbEvents>>
                           ELSE /\ events' = [events EXCEPT ![eventIndex] = updatedEvent]
                                /\ dbEvents' = UpdateRow(dbEvents, eventId,
                                                         eventRow(updatedEvent))
                        /\ lastOp' = Op("updateEvent", "event", eventId, ~dbFails,
                                        TouchesEventSchedule(updatedEventData), resched,
                                        event.notificationIds)
                        /\ Outside(Answer(dbFails))
        /\ UNCHANGED <<now, notificationsEnabled, alarms, dbAlarms, nextId, calcVars, runVars>>

DeleteEvent ==
    \E eventId \in 1 .. MaxIds, dbFails \in BOOLEAN :
    \E staleThrows \in StaleOutcomes(StoredIds(events, eventId)) :
        /\ LET eventIndex == findIndex(events, eventId)
               pre == IF eventIndex # 0 THEN events[eventIndex].notificationIds ELSE <<>>
               w1 == IF Len(pre) > 0
                     THEN cancelEventNotifications(World, pre, staleThrows)
                     ELSE World
           IN  /\ SetWorld(w1)
               /\ IF dbFails
                  THEN UNCHANGED <<events, dbEvents>>
                  ELSE /\ events' = filterOut(events, eventId)
                       /\ dbEvents' = DeleteRow(dbEvents, eventId)
               /\ lastOp' = Op("deleteEvent", "event", eventId, ~dbFails, FALSE, FALSE, pre)
               /\ Outside(Answer(dbFails))
        /\ UNCHANGED <<now, notificationsEnabled, alarms, dbAlarms, nextId, calcVars, runVars>>

(***************************************************************************)
(* The notification context (NotificationContext.tsx).                     *)
(***************************************************************************)
EnableNotifications ==
    \E permissionsGranted \in BOOLEAN, storageThrows \in BOOLEAN :
        /\ notificationsEnabled' =
               (notificationsEnabled \/ (permissionsGranted /\ ~storageThrows))
        /\ calls' = <<>>
        /\ lastOp' = Op("enableNotifications", "context", 0,
                        permissionsGranted /\ ~storageThrows, FALSE, FALSE, <<>>)
        /\ Outside("none")
        /\ UNCHANGED <<now, alarms, dbAlarms, events, dbEvents, armed, nextHandle, nextId,
                       calcVars, runVars>>

CancelAllCall ==
    [op |-> "cancelAll", handle |-> 0, kind |-> "none", id |-> 0, date |-> Null,
     enabled |-> FALSE]

\* The outcomes of cancelAllScheduledNotificationsAsync: it can fail only with
\* something to cancel.
CancelAllOutcomes == IF armed = {} THEN {FALSE} ELSE BOOLEAN

\* try { setItem('false'); setNotificationsEnabled(false); cancelAll } catch { log }
DisableNotifications ==
    \E storageThrows \in BOOLEAN, cancelAllThrows \in CancelAllOutcomes :
        /\ IF storageThrows
           THEN /\ calls' = <<>>
                /\ UNCHANGED <<notificationsEnabled, armed>>
           ELSE /\ notificationsEnabled' = FALSE
                /\ armed' = IF cancelAllThrows THEN armed ELSE {}
                /\ calls' = <<CancelAllCall>>
        /\ lastOp' = Op("disableNotifications", "context", 0,
                        ~storageThrows /\ ~cancelAllThrows, FALSE, FALSE, <<>>)
        /\ Outside("none")
        /\ UNCHANGED <<now, alarms, dbAlarms, events, dbEvents, nextHandle, nextId,
                       calcVars, runVars>>

(***************************************************************************)
(* Time passes to the next instant of interest; the dispatcher delivers    *)
(* the notifications that are due, which leaves them no longer armed.      *)
(***************************************************************************)
Tick ==
    \E i \in 1 .. (Len(SysInstants) - 1) :
        /\ now = SysInstants[i]
        /\ now' = SysInstants[i + 1]
        /\ armed' = {n \in armed : getTime(n.date) > getTime(SysInstants[i + 1])}
        /\ calls' = <<>>
        /\ lastOp' = Op("tick", "clock", 0, TRUE, FALSE, FALSE, <<>>)
        /\ Outside("none")
        /\ UNCHANGED <<notificationsEnabled, alarms, dbAlarms, events, dbEvents,
                       nextHandle, nextId, calcVars, runVars>>

\* The alarm store alone with the notification context and the clock.
(***************************************************************************)
(* The task store's operations (part_006 1114-1261).                       *)
(***************************************************************************)
AddTask ==
    \E input \in TaskInputs, dbFails \in BOOLEAN :
        /\ nextId <= MaxIds
        /\ Len(tasks) < MaxTasks
        /\ LET newTask == [id |-> nextId, dueDate |-> input.dueDate,
                           remindAt |-> input.remindAt, categoryId |-> input.categoryId,
                           notificationId |-> input.notificationId]
           IN  /\ IF dbFails
                  THEN UNCHANGED <<tasks, dbTasks>>
                  ELSE /\ tasks' = Append(tasks, newTask)
                       /\ dbTasks' = dbTasks \cup {taskRow(newTask)}
               /\ lastOp' = Op("addTask", "task", nextId, ~dbFails, TRUE, FALSE, <<>>)
               /\ Outside(Answer(dbFails))
        /\ nextId' = nextId + 1
        /\ calls' = <<>>
        /\ UNCHANGED <<now, notificationsEnabled, alarms, dbAlarms, events, dbEvents, armed,
                       nextHandle, calcVars, platform, procs, twice, unsafe,
                       categories, dbCategories, notes, dbNotes, folders, dbFolders,
                       customCalendars, dbCalendars, alarmSounds, dbSounds>>

UpdateTask ==
    \E taskId \in 1 .. MaxIds, updatedTask \in TaskUpdates, dbFails \in BOOLEAN :
        /\ LET taskIndex == findIndex(tasks, taskId)
           IN  IF taskIndex = 0
               THEN /\ lastOp' = Op("updateTask", "task", taskId, FALSE, FALSE, FALSE, <<>>)
                    /\ Outside("none")
                    /\ UNCHANGED <<tasks, dbTasks>>
               ELSE LET updatedTaskData == merge(tasks[taskIndex], updatedTask)
                    IN  /\ IF dbFails
                           THEN UNCHANGED <<tasks, dbTasks>>
                           ELSE /\ tasks' = [tasks EXCEPT ![taskIndex] = updatedTaskData]
                                /\ dbTasks' = UpdateFields(dbTasks, taskId, updatedTask)
                        /\ lastOp' = Op("updateTask", "task", taskId, ~dbFails,
                                        DOMAIN updatedTask \cap {"dueDate", "remindAt"} # {},
                                        FALSE, <<>>)
                        /\ Outside(Answer(dbFails))
        /\ calls' = <<>>
        /\ UNCHANGED <<now, notificationsEnabled, alarms, dbAlarms, events, dbEvents, armed,
                       nextHandle, nextId, calcVars, platform, procs, twice, unsafe,
                       categories, dbCategories, notes, dbNotes, folders, dbFolders,
                       customCalendars, dbCalendars, alarmSounds, dbSounds>>

(***************************************************************************)
(* The calendar store's custom calendars (part_006 529-804).               *)
(***************************************************************************)
\* Date.now().toString(): an id no calendar and no event refers to.
NewCalendarId ==
    CHOOSE id \in 1 .. (MaxCalendars + 1) :
        /\ \A i \in 1 .. Len(customCalendars) : customCalendars[i].id # id
        /\ \A r \in dbCalendars : r.id # id
        /\ \A i \in 1 .. Len(events) : events[i].calendarId # id
        /\ \A r \in dbEvents : r.calendarId # id
        /\ \A smaller \in 1 .. (id - 1) :
               \/ \E i \in 1 .. Len(customCalendars) : customCalendars[i].id = smaller
               \/ \E r \in dbCalendars : r.id = smaller
               \/ \E i \in 1 .. Len(events) : events[i].calendarId = smaller
               \/ \E r \in dbEvents : r.calendarId = smaller

\* A plausible slip: the calendars that were default left so.
UndefaultSkipped(list) == list

\* state.customCalendars.map(cal => ({ ...cal, isDefault: false }))
Undefault(list) == [i \in 1 .. Len(list) |-> [list[i] EXCEPT !.isDefault = FALSE]]

\* What a calendar operation leaves alone.
CalendarFrame ==
    UNCHANGED <<now, notificationsEnabled, alarms, dbAlarms, armed, nextHandle, nextId,
                calcVars, platform, procs, twice, unsafe, tasks, dbTasks, categories,
                dbCategories, notes, dbNotes, folders, dbFolders, alarmSounds, dbSounds>>

AddCustomCalendar ==
    \E input \in CalendarInputs, unsetFails \in BOOLEAN, dbFails \in BOOLEAN :
        /\ Len(customCalendars) < MaxCalendars
        /\ Cardinality(dbCalendars) < MaxCalendars
        /\ LET newCalendar == [id |-> NewCalendarId, name |-> input.name,
                               isVisible |-> input.isVisible,
                               isDefault |-> input.isDefault]
               cleared == IF newCalendar.isDefault /\ ~unsetFails
                          THEN ClearDefault(dbCalendars) ELSE dbCalendars
           IN  /\ IF dbFails
                  THEN /\ dbCalendars' = cleared
                       /\ UNCHANGED customCalendars
                  ELSE /\ dbCalendars' = cleared \cup {calendarRow(newCalendar)}
                       /\ customCalendars' =
                              IF newCalendar.isDefault
                              THEN Append(Undefault(customCalendars), newCalendar)
                              ELSE Append(customCalendars, newCalendar)
               /\ lastOp' = Op("addCustomCalendar", "calendar", newCalendar.id, ~dbFails,
                               FALSE, FALSE, <<>>)
               /\ Outside(Answer(dbFails))
        /\ calls' = <<>>
        /\ UNCHANGED <<events, dbEvents>>
        /\ CalendarFrame

UpdateCustomCalendar ==
    \E calendarId \in 1 .. (MaxCalendars + 1), updatedCalendarData \in CalendarUpdates,
       unsetFails \in BOOLEAN, dbFails \in BOOLEAN :
        /\ LET calendarIndex == findIndex(customCalendars, calendarId)
           IN  IF calendarIndex = 0
               THEN /\ lastOp' = Op("updateCustomCalendar", "calendar", calendarId, FALSE,
                                    FALSE, FALSE, <<>>)
                    /\ Outside("none")
                    /\ UNCHANGED <<customCalendars, dbCalendars>>
               ELSE LET calendar == customCalendars[calendarIndex]
                        updatedCalendar == merge(calendar, updatedCalendarData)
                        promotes == updatedCalendar.isDefault /\ ~calendar.isDefault
                        cleared == IF promotes /\ ~unsetFails
                                   THEN ClearDefault(dbCalendars) ELSE dbCalendars
                    IN  /\ IF dbFails
                           THEN /\ dbCalendars' = cleared
                                /\ UNCHANGED customCalendars
                           ELSE /\ dbCalendars' =
                                       UpdateFields(cleared, calendarId,
                                                    calendarValues(updatedCalendarData))
                                /\ customCalendars' =
                                       IF promotes
                                       THEN [i \in 1 .. Len(customCalendars) |->
                                               [customCalendars[i] EXCEPT !.isDefault =
                                                   (customCalendars[i].id = calendarId)]]
                                       ELSE [customCalendars EXCEPT
                                                ![calendarIndex] = updatedCalendar]
                        /\ lastOp' = Op("updateCustomCalendar", "calendar", calendarId,
                                        ~dbFails, promotes, FALSE, <<>>)
                        /\ Outside(Answer(dbFails))
        /\ calls' = <<>>
        /\ UNCHANGED <<events, dbEvents>>
        /\ CalendarFrame

\* event.calendarId === calendarId ? { ...event, calendarId: undefined } : event
\* The ids of the items of the list that refer to the container.
Linked(list, field, id) ==
    LET sel == SelectSeq(list, LAMBDA item : item[field] = id)
    IN  [k \in 1 .. Len(sel) |-> sel[k].id]

\* A plausible slip: the items keep their reference to the deleted container.
UnlinkSkipped(list, field, id) == list

Unlink(list, field, id) ==
    [i \in 1 .. Len(list) |->
        IF list[i][field] = id THEN [list[i] EXCEPT ![field] = 0] ELSE list[i]]

\* UPDATE ... SET field = NULL WHERE field = ?
UnlinkRows(rows, field, id) ==
    {IF r[field] = id THEN [r EXCEPT ![field] = 0] ELSE r : r \in rows}

\* deleteCustomCalendar: the statements run one inside the other's success
\* callback; failedAt is the statement that fails (0: none), the ones before
\* it having taken effect.
DeleteCustomCalendar ==
    \E calendarId \in 1 .. (MaxCalendars + 1), failedAt \in 0 .. 3 :
        /\ LET calendarIndex == findIndex(customCalendars, calendarId)
           IN  IF calendarIndex = 0
               THEN /\ failedAt = 0
                    /\ lastOp' = Op("deleteCustomCalendar", "calendar", calendarId, FALSE,
                                    FALSE, FALSE, <<>>)
                    /\ Outside("none")
                    /\ UNCHANGED <<customCalendars, dbCalendars, events, dbEvents>>
               ELSE LET calendar == customCalendars[calendarIndex]
                        newDefault == calendar.isDefault /\ Len(customCalendars) > 1
                        remainingCalendars == filterOut(customCalendars, calendarId)
                        newDefaultId == IF newDefault THEN remainingCalendars[1].id ELSE 0
                        deleted == DeleteRow(dbCalendars, calendarId)
                    IN  /\ failedAt = 3 => newDefault
                        /\ dbCalendars' =
                               IF failedAt = 1 THEN dbCalendars
                               ELSE IF failedAt \in {2, 3} \/ ~newDefault THEN deleted
                               ELSE UpdateFields(deleted, newDefaultId, [isDefault |-> 1])
                        /\ dbEvents' =
                               IF failedAt \in {1, 2} THEN dbEvents
                               ELSE UnlinkRows(dbEvents, "calendarId", calendarId)
                        /\ IF failedAt # 0
                           THEN UNCHANGED <<customCalendars, events>>
                           ELSE /\ customCalendars' =
                                       [i \in 1 .. Len(remainingCalendars) |->
                                           IF remainingCalendars[i].id = newDefaultId
                                           THEN [remainingCalendars[i] EXCEPT
                                                    !.isDefault = TRUE]
                                           ELSE remainingCalendars[i]]
                                /\ events' = Unlink(events, "calendarId", calendarId)
                        /\ lastOp' = Op("deleteCustomCalendar", "calendar", calendarId,
                                        failedAt = 0, newDefault, FALSE,
                                        Linked(events, "calendarId", calendarId))
                        /\ Outside(Answer(failedAt # 0))
        /\ calls' = <<>>
        /\ CalendarFrame

\* What deleteCategory and deleteFolder leave alone.
ContainerFrame ==
    UNCHANGED <<now, notificationsEnabled, alarms, dbAlarms, events, dbEvents, armed,
                nextHandle, nextId, calcVars, platform, procs, twice, unsafe,
                customCalendars, dbCalendars, alarmSounds, dbSounds>>

\* deleteCategory: DELETE FROM categories, then UPDATE tasks SET categoryId =
\* NULL, then the category is filtered out and the tasks are unlinked in memory.
\* failedAt is the statement whose error callback runs (0: none).
DeleteCategory ==
    \E categoryId \in 1 .. (MaxContainers + 1), failedAt \in 0 .. 2 :
        /\ dbCategories' = IF failedAt = 1 THEN dbCategories
                           ELSE DeleteRow(dbCategories, categoryId)
        /\ dbTasks' = IF failedAt # 0 THEN dbTasks
                      ELSE UnlinkRows(dbTasks, "categoryId", categoryId)
        /\ IF failedAt # 0
           THEN UNCHANGED <<categories, tasks>>
           ELSE /\ categories' = filterOut(categories, categoryId)
                /\ tasks' = Unlink(tasks, "categoryId", categoryId)
        /\ lastOp' = Op("deleteCategory", "category", categoryId, failedAt = 0,
                        FALSE, FALSE, Linked(tasks, "categoryId", categoryId))
        /\ Outside(Answer(failedAt # 0))
        /\ calls' = <<>>
        /\ UNCHANGED <<notes, dbNotes, folders, dbFolders>>
        /\ ContainerFrame

\* deleteFolder: DELETE FROM note_folders, then UPDATE notes SET folderId = NULL,
\* then the folder is filtered out and the notes are unlinked in memory.
DeleteFolder ==
    \E folderId \in 1 .. (MaxContainers + 1), failedAt \in 0 .. 2 :
        /\ dbFolders' = IF failedAt = 1 THEN dbFolders
                        ELSE DeleteRow(dbFolders, folderId)
        /\ dbNotes' = IF failedAt # 0 THEN dbNotes
                      ELSE UnlinkRows(dbNotes, "folderId", folderId)
        /\ IF failedAt # 0
           THEN UNCHANGED <<folders, notes>>
           ELSE /\ folders' = filterOut(folders, folderId)
                /\ notes' = Unlink(notes, "folderId", folderId)
        /\ lastOp' = Op("deleteFolder", "folder", folderId, failedAt = 0,
                        FALSE, FALSE, Linked(notes, "folderId", folderId))
        /\ Outside(Answer(failedAt # 0))
        /\ calls' = <<>>
        /\ UNCHANGED <<tasks, dbTasks, categories, dbCategories>>
        /\ ContainerFrame

NextAlarms ==
    \/ AddAlarm
    \/ UpdateAlarm
    \/ ToggleAlarmEnabled
    \/ DeleteAlarm
    \/ EnableNotifications
    \/ DisableNotifications
    \/ Tick

SpecAlarms == Init /\ [][NextAlarms]_vars

\* The calendar store's events alone with the notification context and the clock.
NextEvents ==
    \/ AddEvent
    \/ UpdateEvent
    \/ DeleteEvent
    \/ EnableNotifications
    \/ DisableNotifications
    \/ Tick

SpecEvents == Init /\ [][NextEvents]_vars

\* Both stores with the notification context and the clock; the entities of the
\* two stores share the budget of ids.
NextStores ==
    \/ NextAlarms
    \/ NextEvents

SpecStores == Init /\ [][NextStores]_vars

\* One of the task store, the note store and the calendar store as fetchTasks
\* and fetchCategories, fetchNotes and fetchFolders, fetchEvents and
\* fetchCustomCalendars load it: the containers 1 .. MaxContainers and items that
\* refer to one of them or to none (0). The other two stores are not loaded.
ContainerIds == 1 .. MaxContainers
Links == {0} \cup ContainerIds
Stores == {"task", "note", "calendar"}

LoadedTasks(link) ==
    [i \in 1 .. MaxTasks |->
        [id |-> i, dueDate |-> Null, remindAt |-> Null, categoryId |-> link[i],
         notificationId |-> 0]]

LoadedNotes(link) ==
    [i \in 1 .. MaxNotes |-> [id |-> i, title |-> "n", folderId |-> link[i]]]

LoadedEvents(link) ==
    [i \in 1 .. MaxEvents |->
        [id |-> i, startDate |-> MkDate(8, 10, 0, 0), reminders |-> <<>>,
         calendarId |-> link[i], notificationIds |-> <<>>]]

LoadedCalendars(defaultId) ==
    [i \in ContainerIds |->
        [id |-> i, name |-> "a", isVisible |-> TRUE, isDefault |-> (i = defaultId)]]

LoadedContainers(name) == [i \in ContainerIds |-> [id |-> i, name |-> name]]

RowsOf(list) == {list[i] : i \in 1 .. Len(list)}

InitContainers ==
    /\ now = SysInstants[1]
    /\ notificationsEnabled = FALSE
    /\ alarms = <<>> /\ dbAlarms = {}
    /\ armed = {}
    /\ nextHandle = 1
    /\ nextId = 1
    /\ calls = <<>>
    /\ lastOp = NoOp
    /\ lastWrite = "none"
    /\ isLoading = FALSE
    /\ error = NoError
    /\ platform = "native"
    /\ procs = [slot \in 1 .. MaxCalls |-> NoProc]
    /\ twice = NoTwice
    /\ unsafe = FALSE
    /\ alarmSounds = <<>> /\ dbSounds = {}
    /\ calcAlarm = CHOOSE a \in CalcAlarms : TRUE
    /\ calcNow = CHOOSE t \in NowSamples : TRUE
    /\ calcResult = Null
    /\ calcPc = "idle"
    /\ \E store \in Stores :
           /\ categories = IF store = "task" THEN LoadedContainers("c") ELSE <<>>
           /\ folders = IF store = "note" THEN LoadedContainers("f") ELSE <<>>
           /\ \E link \in [1 .. MaxTasks -> Links] :
                  tasks = IF store = "task" THEN LoadedTasks(link) ELSE <<>>
           /\ \E link \in [1 .. MaxNotes -> Links] :
                  notes = IF store = "note" THEN LoadedNotes(link) ELSE <<>>
           /\ \E defaultId \in Links :
                  customCalendars = IF store = "calendar" THEN LoadedCalendars(defaultId)
                                    ELSE <<>>
           /\ \E link \in [1 .. MaxEvents -> Links] :
                  events = IF store = "calendar" THEN LoadedEvents(link) ELSE <<>>
    /\ dbCategories = RowsOf(categories)
    /\ dbFolders = RowsOf(folders)
    /\ dbCalendars = {calendarRow(customCalendars[i]) : i \in 1 .. Len(customCalendars)}
    /\ dbTasks = {taskRow(tasks[i]) : i \in 1 .. Len(tasks)}
    /\ dbNotes = RowsOf(notes)
    /\ dbEvents = {eventRow(events[i]) : i \in 1 .. Len(events)}

\* Deleting the containers of the loaded stores.
NextContainers ==
    \/ DeleteCategory
    \/ DeleteFolder
    \/ DeleteCustomCalendar

SpecContainers == InitContainers /\ [][NextContainers]_vars

\* The task store with the notification context and the clock.
NextTasks ==
    \/ AddTask
    \/ UpdateTask
    \/ EnableNotifications
    \/ DisableNotifications
    \/ Tick

SpecTasks == Init /\ [][NextTasks]_vars

\* The custom calendars of the calendar store.
NextCalendars ==
    \/ AddCustomCalendar
    \/ UpdateCustomCalendar
    \/ DeleteCustomCalendar

SpecCalendars == Init /\ [][NextCalendars]_vars

(***************************************************************************)
(* Overlapping calls of the alarm store.  An async operation runs to its   *)
(* first await when it is called and then resumes at each await: after the *)
(* dispatcher's cancel, after its schedule, and in the callback of the     *)
(* store's statement.  On the web getDatabase returns a stub whose         *)
(* transaction ignores its callback: the statement's callbacks never run.  *)
(***************************************************************************)
OverlapAlarm(id, enabled, ids) ==
    [id |-> id, hour |-> 9, minute |-> 0, days |-> <<1>>, enabled |-> enabled,
     isOneTime |-> FALSE, date |-> Null, vibrate |-> TRUE, notificationIds |-> ids]

\* Two alarms added earlier with notifications on: the first enabled and armed
\* for Monday 09:00, the second disabled.
OverlapAlarms == <<OverlapAlarm(1, TRUE, <<1>>), OverlapAlarm(2, FALSE, <<>>)>>

OverlapUpdates == [hour : SysHours] \cup [enabled : BOOLEAN] \cup [vibrate : {FALSE}]

InitOverlap ==
    /\ platform \in {"native", "web"}
    /\ now = SysInstants[1]
    /\ notificationsEnabled = (platform = "native")
    /\ alarms = IF platform = "native" THEN OverlapAlarms ELSE <<>>
    /\ dbAlarms = {alarmRow(alarms[i]) : i \in 1 .. Len(alarms)}
    /\ events = <<>>
    /\ dbEvents = {}
    /\ armed = IF platform = "native"
               THEN {[handle |-> 1, kind |-> "alarm", id |-> 1, date |-> MkDate(8, 9, 0, 0)]}
               ELSE {}
    /\ nextHandle = Cardinality(armed) + 1
    /\ nextId = Len(OverlapAlarms) + 1
    /\ calls = <<>>
    /\ lastOp = NoOp
    /\ lastWrite = "none"
    /\ isLoading = FALSE
    /\ error = NoError
    /\ procs = [slot \in 1 .. MaxCalls |-> NoProc]
    /\ twice = NoTwice
    /\ unsafe = FALSE
    /\ InitOrg
    /\ calcAlarm = CHOOSE a \in CalcAlarms : TRUE
    /\ calcNow = CHOOSE t \in NowSamples : TRUE
    /\ calcResult = Null
    /\ calcPc = "idle"

InFlight(slot) == procs[slot].pc \in {"cancel", "schedule", "write"}

Free(slot) == procs[slot].pc = "idle"

\* A further call may start: few enough are in flight, and each of them can
\* still get a handle from the dispatcher.
MayStart ==
    /\ \E slot \in 1 .. MaxCalls : Free(slot)
    /\ Cardinality({slot \in 1 .. MaxCalls : InFlight(slot)}) < MaxInFlight
    /\ nextHandle + Cardinality({slot \in 1 .. MaxCalls : InFlight(slot)}) <= MaxHandles

\* Another call on the same alarm is in flight.
Overlaps(slot, alarmId) ==
    \E other \in 1 .. MaxCalls :
        other # slot /\ InFlight(other) /\ procs[other].alarmId = alarmId

\* The slot a new call takes.
FreeSlot == CHOOSE slot \in 1 .. MaxCalls : Free(slot) /\ \A t \in 1 .. (slot - 1) : ~Free(t)

Proc(pc, op, alarmId, data, snapshot, alarmIndex, entity, pre, ids) ==
    [pc |-> pc, op |-> op, alarmId |-> alarmId, data |-> data, alarms |-> snapshot,
     alarmIndex |-> alarmIndex, entity |-> entity, pre |-> pre, ids |-> ids]

\* updateAlarm up to its first await (409-453): the list is read once, here.
BeginUpdateAlarm ==
    \E alarmId \in 1 .. Len(OverlapAlarms), updatedAlarmData \in OverlapUpdates :
        /\ MayStart
        /\ LET slot == FreeSlot
               alarmIndex == findIndex(alarms, alarmId)
           IN  IF alarmIndex = 0
               THEN /\ procs' = [procs EXCEPT ![slot] =
                                    Proc("rejected", "updateAlarm", alarmId, updatedAlarmData,
                                         <<>>, 0, <<>>, <<>>, <<>>)]
                    /\ isLoading' = FALSE
                    /\ error' = AlarmNotFound
                    /\ UNCHANGED unsafe
               ELSE LET alarm == alarms[alarmIndex]
                        merged == merge(alarm, updatedAlarmData)
                        touches == ShouldReschedule(updatedAlarmData)
                        pc == IF touches /\ Len(alarm.notificationIds) > 0 THEN "cancel"
                              ELSE IF touches /\ merged.enabled THEN "schedule"
                              ELSE "write"
                        ids == IF touches THEN <<>> ELSE alarm.notificationIds
                    IN  /\ procs' = [procs EXCEPT ![slot] =
                                        Proc(pc, "updateAlarm", alarmId, updatedAlarmData,
                                             alarms, alarmIndex, merged,
                                             alarm.notificationIds, ids)]
                        /\ isLoading' = TRUE
                        /\ error' = NoError
                        /\ unsafe' = (unsafe \/ Overlaps(slot, alarmId))
        /\ UNCHANGED <<now, notificationsEnabled, alarms, dbAlarms, events, dbEvents, armed,
                       nextHandle, nextId, calls, lastOp, lastWrite, platform, twice, orgVars,
                       calcVars>>

\* addAlarm up to its first await (329-348).
BeginAddAlarm ==
    \E enabled \in BOOLEAN :
        /\ MayStart
        /\ nextId <= Len(OverlapAlarms) + MaxAdds
        /\ procs' = [procs EXCEPT ![FreeSlot] =
                         Proc(IF enabled THEN "schedule" ELSE "write", "addAlarm", nextId,
                              <<>>, <<>>, 0, OverlapAlarm(nextId, enabled, <<>>), <<>>,
                              <<>>)]
        /\ nextId' = nextId + 1
        /\ isLoading' = TRUE
        /\ error' = NoError
        /\ UNCHANGED <<now, notificationsEnabled, alarms, dbAlarms, events, dbEvents, armed,
                       nextHandle, calls, lastOp, lastWrite, platform, twice, unsafe, orgVars,
                       calcVars>>

\* deleteAlarm up to its first await (515-525).
BeginDeleteAlarm ==
    \E alarmId \in 1 .. Len(OverlapAlarms) :
        /\ MayStart
        /\ LET slot == FreeSlot
               pre == StoredIds(alarms, alarmId)
           IN  /\ procs' = [procs EXCEPT ![slot] =
                                Proc(IF Len(pre) > 0 THEN "cancel" ELSE "write",
                                     "deleteAlarm", alarmId, <<>>, <<>>, 0, <<>>, pre,
                                     <<>>)]
               /\ unsafe' = (unsafe \/ Overlaps(slot, alarmId))
        /\ isLoading' = TRUE
        /\ error' = NoError
        /\ UNCHANGED <<now, notificationsEnabled, alarms, dbAlarms, events, dbEvents, armed,
                       nextHandle, nextId, calls, lastOp, lastWrite, platform, twice, orgVars,
                       calcVars>>

\* The call resumes after await cancelAlarmNotifications(notificationIds).
CancelStep ==
    \E slot \in 1 .. MaxCalls :
    \E staleThrows \in StaleOutcomes(procs[slot].pre) :
        /\ procs[slot].pc = "cancel"
        /\ SetWorld(cancelAlarmNotifications(World, procs[slot].pre, staleThrows))
        /\ procs' = [procs EXCEPT ![slot].pc =
                         IF procs[slot].op = "updateAlarm" /\ procs[slot].entity.enabled
                         THEN "schedule" ELSE "write"]
        /\ unsafe' = (unsafe \/ staleThrows)
        /\ UNCHANGED <<now, notificationsEnabled, alarms, dbAlarms, events, dbEvents, nextId,
                       lastOp, lastWrite, isLoading, error, platform, twice, orgVars, calcVars>>

\* The call resumes after await scheduleAlarmNotifications(alarm).
ScheduleStep ==
    \E slot \in 1 .. MaxCalls, scheduleThrows \in ScheduleOutcomes :
        /\ procs[slot].pc = "schedule"
        /\ LET r == IF procs[slot].op = "updateAlarm"
                    THEN RescheduleAlarm(World, procs[slot].entity, notificationsEnabled,
                                         now, scheduleThrows)
                    ELSE scheduleAlarmNotifications(World, procs[slot].entity,
                                                    notificationsEnabled, now,
                                                    scheduleThrows)
           IN  /\ SetWorld(r.w)
               /\ procs' = [procs EXCEPT ![slot].pc = "write", ![slot].ids = r.ids]
        /\ unsafe' = (unsafe \/ scheduleThrows)
        /\ UNCHANGED <<now, notificationsEnabled, alarms, dbAlarms, events, dbEvents, nextId,
                       lastOp, lastWrite, isLoading, error, platform, twice, orgVars, calcVars>>

\* The list a successful statement's callback sets: updateAlarm copies the list
\* it read when it was called (486-492), addAlarm and deleteAlarm work on the
\* list of the moment (381-384, 536-539).
WrittenList(proc, saved) ==
    IF proc.op = "updateAlarm" THEN [proc.alarms EXCEPT ![proc.alarmIndex] = saved]
    ELSE IF proc.op = "addAlarm" THEN Append(alarms, saved)
    ELSE filterOut(alarms, proc.alarmId)

WrittenRows(proc, saved) ==
    IF proc.op = "updateAlarm" THEN UpdateRow(dbAlarms, proc.alarmId, alarmRow(saved))
    ELSE IF proc.op = "addAlarm" THEN dbAlarms \cup {alarmRow(saved)}
    ELSE DeleteRow(dbAlarms, proc.alarmId)

\* The statement's success or error callback runs; never on the web stub.
WriteStep ==
    \E slot \in 1 .. MaxCalls, dbFails \in BOOLEAN :
        /\ procs[slot].pc = "write"
        /\ platform = "native"
        /\ LET proc == procs[slot]
               saved == IF proc.op = "deleteAlarm" THEN proc.entity
                        ELSE [proc.entity EXCEPT !.notificationIds = proc.ids]
           IN  /\ IF dbFails
                  THEN /\ error' = SqlError
                       /\ UNCHANGED <<alarms, dbAlarms>>
                  ELSE /\ alarms' = WrittenList(proc, saved)
                       /\ dbAlarms' = WrittenRows(proc, saved)
                       /\ UNCHANGED error
               /\ procs' = [procs EXCEPT ![slot] =
                                Proc(IF dbFails THEN "rejected" ELSE "resolved", proc.op,
                                     proc.alarmId, proc.data, <<>>, 0, <<>>, <<>>,
                                     proc.ids)]
        /\ isLoading' = FALSE
        /\ unsafe' = (unsafe \/ dbFails)
        /\ UNCHANGED <<now, notificationsEnabled, events, dbEvents, armed, nextHandle,
                       nextId, calls, lastOp, lastWrite, platform, twice, orgVars, calcVars>>

NextOverlap ==
    \/ BeginUpdateAlarm
    \/ BeginAddAlarm
    \/ BeginDeleteAlarm
    \/ CancelStep
    \/ ScheduleStep
    \/ WriteStep

SpecOverlap == InitOverlap /\ [][NextOverlap]_vars

\* The dispatcher and the native store answer every request in the end.
SpecOverlapFair ==
    SpecOverlap /\ WF_vars(CancelStep) /\ WF_vars(ScheduleStep) /\ WF_vars(WriteStep)

(***************************************************************************)
(* The alarm sounds and the refresh of the alarm screen.  fetchAlarms and   *)
(* fetchAlarmSounds set isLoading, queue their SELECT and return; onRefresh *)
(* starts both, and each SELECT answers in a step of its own.  addAlarmSound*)
(* and deleteAlarmSound are called one at a time, with no SELECT pending.   *)
(***************************************************************************)
\* The default sounds initDatabase inserts, default_1 first.
DefaultSounds ==
    <<[id |-> "default_1", name |-> "Gentle Wake", isBuiltIn |-> TRUE],
      [id |-> "default_2", name |-> "Digital Alarm", isBuiltIn |-> TRUE],
      [id |-> "default_3", name |-> "Morning Bird", isBuiltIn |-> TRUE],
      [id |-> "default_4", name |-> "Soft Bells", isBuiltIn |-> TRUE],
      [id |-> "default_5", name |-> "Ocean Wave", isBuiltIn |-> TRUE]>>

\* `custom_${Date.now()}`: the k-th id handed out.
CustomIds == <<"custom_1", "custom_2", "custom_3">>

\* Omit<AlarmSound, 'id'>
SoundInputs == [name : {"Mine"}, isBuiltIn : BOOLEAN]

SoundIds ==
    {DefaultSounds[i].id : i \in 1 .. MaxBuiltIn}
        \cup {CustomIds[i] : i \in 1 .. (MaxCustom + 1)}

\* [newSound.id, newSound.name, newSound.url, newSound.isBuiltIn ? 1 : 0]
soundRow(sound) ==
    [id |-> sound.id, name |-> sound.name, isBuiltIn |-> SqlBool(sound.isBuiltIn)]

\* { ...sound, isBuiltIn: sound.isBuiltIn === 1 }
soundOfRow(row) == [id |-> row.id, name |-> row.name, isBuiltIn |-> (row.isBuiltIn = 1)]

\* An alarm as the alarm screen keeps it, with the name of its sound.
SoundAlarm(id, soundName) ==
    [id |-> id, hour |-> 9, minute |-> 0, days |-> <<1>>, enabled |-> FALSE,
     isOneTime |-> FALSE, date |-> Null, vibrate |-> TRUE, notificationIds |-> <<>>,
     soundName |-> soundName]

soundAlarmRow(alarm) ==
    [f \in DOMAIN alarmRow(alarm) \cup {"soundName"} |->
        IF f = "soundName" THEN alarm.soundName ELSE alarmRow(alarm)[f]]

\* The alarm fetchAlarms builds from a row.
alarmOfRow(row) ==
    [id |-> row.id, hour |-> row.hour, minute |-> row.minute, days |-> ParseList(row.days),
     enabled |-> (row.enabled = 1), isOneTime |-> (row.isOneTime = 1), date |-> row.date,
     vibrate |-> (row.vibrate = 1), notificationIds |-> ParseList(row.notificationIds),
     soundName |-> row.soundName]

\* SELECT * FROM alarms: the rows in the order they were inserted, which is the
\* order of their ids.
RowsById(rows) ==
    CHOOSE list \in [1 .. Cardinality(rows) -> rows] :
        \A i, j \in 1 .. Cardinality(rows) : i < j => list[i].id < list[j].id

StoredAlarms == {SoundAlarm(1, "Mine"), SoundAlarm(2, "Gentle Wake")}

\* The database as initDatabase and earlier sessions left it; nothing fetched yet.
InitSounds ==
    /\ now = SysInstants[1]
    /\ notificationsEnabled = FALSE
    /\ alarms = <<>>
    /\ \E stored \in SUBSET StoredAlarms : dbAlarms = {soundAlarmRow(a) : a \in stored}
    /\ events = <<>> /\ dbEvents = {}
    /\ armed = {}
    /\ nextHandle = 1
    /\ nextId = 1
    /\ calls = <<>>
    /\ lastOp = NoOp
    /\ lastWrite = "none"
    /\ isLoading = FALSE
    /\ error = NoError
    /\ platform = "native"
    /\ procs = [slot \in 1 .. MaxCalls |-> NoProc]
    /\ twice = NoTwice
    /\ unsafe = FALSE
    /\ tasks = <<>> /\ dbTasks = {}
    /\ categories = <<>> /\ dbCategories = {}
    /\ notes = <<>> /\ dbNotes = {}
    /\ folders = <<>> /\ dbFolders = {}
    /\ customCalendars = <<>> /\ dbCalendars = {}
    /\ alarmSounds = <<>>
    /\ dbSounds = [i \in 1 .. MaxBuiltIn |-> soundRow(DefaultSounds[i])]
    /\ calcAlarm = CHOOSE a \in CalcAlarms : TRUE
    /\ calcNow = CHOOSE t \in NowSamples : TRUE
    /\ calcResult = Null
    /\ calcPc = "idle"

\* What the sounds and the refresh leave alone.
SoundFrame ==
    UNCHANGED <<now, notificationsEnabled, events, dbEvents, armed, nextHandle, calls,
                calcVars, platform, twice, unsafe, tasks, dbTasks, categories,
                dbCategories, notes, dbNotes, folders, dbFolders, customCalendars,
                dbCalendars>>

Fetching(slot) == procs[slot].pc = "select"

Fetch(op) == [NoProc EXCEPT !.pc = "select", !.op = op]

\* onRefresh: fetchAlarms(user.id) and fetchAlarmSounds() run up to their
\* db.transaction call, each having set isLoading: true, error: null.
OnRefresh ==
    /\ \A slot \in 1 .. MaxCalls : Free(slot)
    /\ procs' = [procs EXCEPT ![1] = Fetch("fetchAlarms"), ![2] = Fetch("fetchAlarmSounds")]
    /\ isLoading' = TRUE
    /\ error' = NoError
    /\ lastOp' = Op("onRefresh", "screen", 0, TRUE, FALSE, FALSE, <<>>)
    /\ UNCHANGED <<alarms, dbAlarms, alarmSounds, dbSounds, nextId, lastWrite>>
    /\ SoundFrame

\* The answer to the SELECT of one fetch: the success callback sets the list
\* and isLoading: false, the error callback the error and isLoading: false.
SelectStep ==
    \E slot \in 1 .. MaxCalls, dbFails \in BOOLEAN :
        /\ Fetching(slot)
        /\ IF dbFails
           THEN /\ error' = SqlError
                /\ UNCHANGED <<alarms, alarmSounds>>
           ELSE /\ UNCHANGED error
                /\ IF procs[slot].op = "fetchAlarms"
                   THEN /\ alarms' = [i \in 1 .. Cardinality(dbAlarms) |->
                                         alarmOfRow(RowsById(dbAlarms)[i])]
                        /\ UNCHANGED alarmSounds
                   ELSE /\ alarmSounds' = [i \in 1 .. Len(dbSounds) |->
                                              soundOfRow(dbSounds[i])]
                        /\ UNCHANGED alarms
        /\ isLoading' = FALSE
        /\ procs' = [procs EXCEPT ![slot] = NoProc]
        /\ lastOp' = Op(procs[slot].op, "fetch", 0, ~dbFails, FALSE, FALSE, <<>>)
        /\ lastWrite' = "none"
        /\ UNCHANGED <<dbAlarms, dbSounds, nextId>>
        /\ SoundFrame

\* addAlarmSound: INSERT INTO alarm_sounds, then the sound is appended in memory.
AddAlarmSound ==
    \E input \in SoundInputs, dbFails \in BOOLEAN :
        /\ \A slot \in 1 .. MaxCalls : Free(slot)
        /\ nextId <= MaxCustom
        /\ LET newSound == [id |-> CustomIds[nextId], name |-> input.name,
                            isBuiltIn |-> input.isBuiltIn]
           IN  /\ IF dbFails
                  THEN UNCHANGED <<alarmSounds, dbSounds>>
                  ELSE /\ alarmSounds' = Append(alarmSounds, newSound)
                       /\ dbSounds' = Append(dbSounds, soundRow(newSound))
               /\ lastOp' = Op("addAlarmSound", "sound", newSound.id, ~dbFails, FALSE,
                               FALSE, <<>>)
               /\ Settle(Answer(dbFails), IF dbFails THEN SqlError ELSE NoError)
        /\ nextId' = nextId + 1
        /\ UNCHANGED <<alarms, dbAlarms, procs>>
        /\ SoundFrame

\* A plausible slip: built-in sounds deleted like any other.
RefusalUnguarded(sounds, soundId) ==
    IF findIndex(sounds, soundId) = 0 THEN SoundNotFound ELSE NoError

\* The error deleteAlarmSound throws before it touches the database, if any.
Refusal(sounds, soundId) ==
    IF findIndex(sounds, soundId) = 0 THEN SoundNotFound
    ELSE IF sounds[findIndex(sounds, soundId)].isBuiltIn THEN CannotDeleteBuiltIn
    ELSE NoError

\* alarm.soundName === sound.name ? { ...alarm, soundName: defaultSound.name } : alarm
Resound(list, from, to) ==
    [i \in 1 .. Len(list) |->
        IF list[i].soundName = from THEN [list[i] EXCEPT !.soundName = to] ELSE list[i]]

\* deleteAlarmSound: refused for an unknown and for a built-in sound; else
\* DELETE FROM alarm_sounds and, if default_1 is among the sounds, the alarms
\* that used the sound get the default one, in the rows (when an alarm in
\* memory uses it; a failing UPDATE is ignored) and in memory.
DeleteAlarmSound ==
    \E soundId \in SoundIds, dbFails \in BOOLEAN, updateFails \in BOOLEAN :
        /\ \A slot \in 1 .. MaxCalls : Free(slot)
        /\ LET sounds == alarmSounds
               refusal == Refusal(sounds, soundId)
           IN  IF refusal # NoError
               THEN /\ ~dbFails /\ ~updateFails
                    /\ lastOp' = Op("deleteAlarmSound", "sound", soundId, FALSE, FALSE,
                                    FALSE, <<>>)
                    /\ Settle("none", refusal)
                    /\ UNCHANGED <<alarms, dbAlarms, alarmSounds, dbSounds>>
               ELSE LET sound == sounds[findIndex(sounds, soundId)]
                        defaultIndex == findIndex(sounds, "default_1")
                        hasDefault == defaultIndex # 0 /\ sounds[defaultIndex].isBuiltIn
                        uses == \E i \in 1 .. Len(alarms) : alarms[i].soundName = sound.name
                    IN  /\ updateFails => (~dbFails /\ hasDefault /\ uses)
                        /\ lastOp' = Op("deleteAlarmSound", "sound", soundId, ~dbFails,
                                        hasDefault, FALSE, <<>>)
                        /\ Settle(Answer(dbFails), IF dbFails THEN SqlError ELSE NoError)
                        /\ IF dbFails
                           THEN UNCHANGED <<alarms, dbAlarms, alarmSounds, dbSounds>>
                           ELSE /\ dbSounds' = SelectSeq(dbSounds,
                                                         LAMBDA row : row.id # soundId)
                                /\ alarmSounds' = SelectSeq(alarmSounds,
                                                            LAMBDA s : s.id # soundId)
                                /\ IF hasDefault
                                   THEN /\ alarms' = Resound(alarms, sound.name,
                                                             sounds[defaultIndex].name)
                                        /\ dbAlarms' =
                                               IF uses /\ ~updateFails
                                               THEN {IF row.soundName = sound.name
                                                     THEN [row EXCEPT !.soundName =
                                                              sounds[defaultIndex].name]
                                                     ELSE row : row \in dbAlarms}
                                               ELSE dbAlarms
                                   ELSE UNCHANGED <<alarms, dbAlarms>>
        /\ UNCHANGED <<nextId, procs>>
        /\ SoundFrame

NextSounds ==
    \/ OnRefresh
    \/ SelectStep
    \/ AddAlarmSound
    \/ DeleteAlarmSound

SpecSounds == InitSounds /\ [][NextSounds]_vars

(***************************************************************************)
(* The same updateAlarm called twice in succession.  The store is first    *)
(* brought to any state its operations reach; then updateAlarm is called   *)
(* with schedule-affecting fields, and called again with the same          *)
(* arguments, nothing happening in between.  twice keeps what the first    *)
(* call left: the alarm's stored handles, its armed notifications, and     *)
(* whether the call succeeded with no schedule request refused.            *)
(***************************************************************************)
Arrange ==
    /\ twice.pc = "free"
    /\ \/ AddAlarm
       \/ EnableNotifications
       \/ DisableNotifications
       \/ Tick

UpdateFirst ==
    \E alarmId \in 1 .. MaxIds, updatedAlarmData \in AlarmUpdates, dbFails \in BOOLEAN :
    \E staleThrows \in StaleOutcomes(StoredIds(alarms, alarmId)),
       scheduleThrows \in ScheduleOutcomes :
        /\ twice.pc = "free"
        /\ ShouldReschedule(updatedAlarmData)
        /\ findIndex(alarms, alarmId) # 0
        /\ UpdateAlarmAs("updateAlarm", alarmId, updatedAlarmData, dbFails, staleThrows,
                         scheduleThrows)
        /\ twice' = [pc |-> "once", id |-> alarmId, data |-> updatedAlarmData,
                     ids |-> StoredIds(alarms', alarmId),
                     armed |-> {n \in armed' : n.kind = "alarm" /\ n.id = alarmId},
                     clean |-> /\ ~dbFails
                               /\ \A k \in 1 .. Len(calls') :
                                      calls'[k].op = "schedule" => calls'[k].handle # 0]
        /\ UNCHANGED <<now, notificationsEnabled, events, dbEvents, nextId, calcVars,
                       platform, procs, unsafe, orgVars>>

UpdateSecond ==
    \E dbFails \in BOOLEAN :
    \E staleThrows \in StaleOutcomes(StoredIds(alarms, twice.id)),
       scheduleThrows \in ScheduleOutcomes :
        /\ twice.pc = "once"
        /\ UpdateAlarmAs("updateAlarm", twice.id, twice.data, dbFails, staleThrows,
                         scheduleThrows)
        /\ twice' = [twice EXCEPT !.pc = "twice"]
        /\ UNCHANGED <<now, notificationsEnabled, events, dbEvents, nextId, calcVars,
                       platform, procs, unsafe, orgVars>>

NextTwice ==
    \/ Arrange
    \/ UpdateFirst
    \/ UpdateSecond

SpecTwice == Init /\ [][NextTwice]_vars

(***************************************************************************)
(* One call of getNextAlarmDate on inputs drawn from the samples.          *)
(***************************************************************************)
InitCalc ==
    /\ now = SysInstants[1]
    /\ notificationsEnabled = FALSE
    /\ alarms = <<>>
    /\ dbAlarms = {}
    /\ events = <<>>
    /\ dbEvents = {}
    /\ armed = {}
    /\ nextHandle = 1
    /\ nextId = 1
    /\ calls = <<>>
    /\ lastOp = NoOp
    /\ lastWrite = "none"
    /\ isLoading = FALSE
    /\ error = NoError
    /\ platform = "native"
    /\ procs = [slot \in 1 .. MaxCalls |-> NoProc]
    /\ twice = NoTwice
    /\ unsafe = FALSE
    /\ InitOrg
    /\ calcAlarm \in CalcAlarms
    /\ calcNow \in NowSamples
    /\ calcResult = Null
    /\ calcPc = "call"

CallGetNextAlarmDate ==
    /\ calcPc = "call"
    /\ calcResult' = getNextAlarmDate(calcAlarm, calcNow)
    /\ calcPc' = "done"
    /\ UNCHANGED <<calcAlarm, calcNow, sysVars, runVars>>

NextCalc == CallGetNextAlarmDate

SpecCalc == InitCalc /\ [][NextCalc]_vars

(***************************************************************************)
(* Properties of the calculator.                                           *)
(***************************************************************************)
Range(seq) == {seq[i] : i \in 1 .. Len(seq)}

IsRecurring(alarm) == ~alarm.isOneTime /\ Len(alarm.days) > 0

\* The instant at the alarm's hour:minute on today + d days.
Candidate(alarm, at, d) == setHours(addDays(at, d), alarm.hour, alarm.minute)

\* Day-offset d lands on a listed weekday and its instant is strictly after now.
OffsetOk(alarm, at, d) ==
    /\ (getDay(at) + d) % 7 \in Range(alarm.days)
    /\ getTime(Candidate(alarm, at, d)) > getTime(at)

MinOffset(alarm, at) ==
    CHOOSE d \in 0 .. 7 :
        OffsetOk(alarm, at, d) /\ \A e \in 0 .. (d - 1) : ~OffsetOk(alarm, at, e)

\* C1: for a recurring alarm getNextAlarmDate returns the instant at the
\* alarm's hour:minute on today + d days, d the smallest day-offset of a listed
\* weekday whose instant is strictly after now.
C1_NextOccurrenceIsMinOffset ==
    (calcPc = "done" /\ IsRecurring(calcAlarm)) =>
        calcResult = Candidate(calcAlarm, calcNow, MinOffset(calcAlarm, calcNow))

\* Days {1,3} at 09:00, now Monday 10:00: Wednesday 09:00.
C1_Witness ==
    /\ calcPc = "done"
    /\ IsRecurring(calcAlarm)
    /\ calcAlarm.days = <<1, 3>> /\ calcAlarm.hour = 9 /\ calcAlarm.minute = 0
    /\ calcNow = MkDate(8, 10, 0, 0)
    /\ calcResult = MkDate(10, 9, 0, 0)

\* The other two examples: Monday 08:00 gives Monday 09:00, Thursday 00:00
\* gives Monday 09:00 of the following week.
C1_Examples ==
    (calcPc = "done" /\ IsRecurring(calcAlarm) /\ calcAlarm.days = <<1, 3>>
        /\ calcAlarm.hour = 9 /\ calcAlarm.minute = 0) =>
        /\ calcNow = MkDate(8, 8, 0, 0) => calcResult = MkDate(8, 9, 0, 0)
        /\ calcNow = MkDate(8, 10, 0, 0) => calcResult = MkDate(10, 9, 0, 0)
        /\ calcNow = MkDate(11, 0, 0, 0) => calcResult = MkDate(15, 9, 0, 0)

IsOneTimeWithDate(alarm) == alarm.isOneTime /\ alarm.date # Null

\* C2: for a one-time alarm getNextAlarmDate returns the stored date combined
\* with the alarm's hour:minute when that instant is strictly after now, and
\* no occurrence when it is at or before now.
C2_OneTimeExactOrNull ==
    (calcPc = "done" /\ IsOneTimeWithDate(calcAlarm)) =>
        LET t == MkDate(calcAlarm.date.day, calcAlarm.hour, calcAlarm.minute, 0)
        IN  IF getTime(t) > getTime(calcNow)
            THEN calcResult = t
            ELSE calcResult = Null

\* A one-time alarm whose instant is exactly now has no occurrence, although its
\* stored date lies later in the day.
C2_Witness ==
    /\ calcPc = "done"
    /\ IsOneTimeWithDate(calcAlarm)
    /\ calcAlarm.date = MkDate(8, 23, 0, 0)
    /\ calcAlarm.hour = 9 /\ calcAlarm.minute = 30
    /\ calcNow = MkDate(8, 9, 30, 0)
    /\ calcResult = Null

\* C3: every non-null result of getNextAlarmDate is strictly later than now.
C3_ResultStrictlyAfterNow ==
    (calcPc = "done" /\ calcResult # Null) =>
        getTime(calcResult) > getTime(calcNow)

\* The same-minute case of a recurring alarm on today's weekday, within the
\* minute: the result is a week ahead.
C3_Witness ==
    /\ calcPc = "done"
    /\ IsRecurring(calcAlarm)
    /\ calcAlarm.days = <<1>> /\ calcAlarm.hour = 9 /\ calcAlarm.minute = 30
    /\ calcNow = MkDate(8, 9, 30, 30)
    /\ calcResult = MkDate(15, 9, 30, 0)

(***************************************************************************)
(* Properties of the stores.                                               *)
(***************************************************************************)
ArmedFor(kind, id) == {n \in armed : n.kind = kind /\ n.id = id}

CancelledInCalls(h) == \E i \in 1 .. Len(calls) : calls[i] = CancelCall(h)

NoScheduleRefused == \A i \in 1 .. Len(calls) : calls[i].op = "schedule" => calls[i].handle # 0

\* The fire-times of an entity that are strictly after the clock.
AlarmFireTimes(alarm) ==
    IF alarm.enabled /\ getNextAlarmDate(alarm, now) # Null
    THEN {getNextAlarmDate(alarm, now)} ELSE {}

EventFireTimes(event) ==
    {t \in {reminderTime(event, event.reminders[i]) : i \in 1 .. Len(event.reminders)} :
        getTime(t) > getTime(now)}

\* The stored handles are armed, one per fire-time of the entity.
OnePerFireTime(kind, id, ids, times) ==
    /\ Len(ids) = Cardinality(times)
    /\ \A i, j \in 1 .. Len(ids) : i # j => ids[i] # ids[j]
    /\ \A i \in 1 .. Len(ids) :
           \E n \in ArmedFor(kind, id) : n.handle = ids[i] /\ n.date \in times

\* C4: with the clock still, after every operation that completed without error
\* the number of handles stored for an entity equals the number of notifications
\* armed for it, and is 0 when the entity is disabled or has no fire-time in the
\* future.
C4_HandlesMatchArmed ==
    (now = SysInstants[1] /\ lastOp.ok) =>
        /\ \A i \in 1 .. Len(alarms) :
               /\ Len(alarms[i].notificationIds)
                      = Cardinality(ArmedFor("alarm", alarms[i].id))
               /\ AlarmFireTimes(alarms[i]) = {} => Len(alarms[i].notificationIds) = 0
        /\ \A i \in 1 .. Len(events) :
               /\ Len(events[i].notificationIds)
                      = Cardinality(ArmedFor("event", events[i].id))
               /\ EventFireTimes(events[i]) = {} => Len(events[i].notificationIds) = 0

\* C5: with notifications on and the dispatcher accepting, after a successful
\* update that carries a schedule-affecting field the previous handles are
\* cancelled and the stored handles are fresh, one per fire-time after now;
\* also when no handle was stored before the update.
C5_UpdateReschedules ==
    (lastOp.op \in {"updateAlarm", "toggleAlarmEnabled", "updateEvent"}
        /\ lastOp.ok /\ lastOp.touches /\ notificationsEnabled /\ NoScheduleRefused) =>
        /\ \A i \in 1 .. Len(lastOp.pre) :
               CancelledInCalls(lastOp.pre[i]) /\ ~IsArmed(World, lastOp.pre[i])
        /\ \A i \in 1 .. Len(alarms) :
               (lastOp.kind = "alarm" /\ alarms[i].id = lastOp.id) =>
                   /\ Range(alarms[i].notificationIds) \cap Range(lastOp.pre) = {}
                   /\ OnePerFireTime("alarm", lastOp.id, alarms[i].notificationIds,
                                     AlarmFireTimes(alarms[i]))
        /\ \A i \in 1 .. Len(events) :
               (lastOp.kind = "event" /\ events[i].id = lastOp.id) =>
                   /\ Range(events[i].notificationIds) \cap Range(lastOp.pre) = {}
                   /\ OnePerFireTime("event", lastOp.id, events[i].notificationIds,
                                     EventFireTimes(events[i]))

\* The last operation disabled alarm number i of the list, which had handles.
DisabledWithHandles(i) ==
    /\ lastOp.op \in {"updateAlarm", "toggleAlarmEnabled"}
    /\ lastOp.ok /\ lastOp.touches
    /\ lastOp.pre # <<>>
    /\ alarms[i].id = lastOp.id
    /\ ~alarms[i].enabled

\* C6: disabling an alarm that has handles issues one cancel call per handle
\* stored for it, schedules nothing, and leaves the alarm with no stored handle
\* and no notification armed.
C6_DisableReleasesAll ==
    \A i \in 1 .. Len(alarms) :
        DisabledWithHandles(i) =>
            /\ calls = [k \in 1 .. Len(lastOp.pre) |-> CancelCall(lastOp.pre[k])]
            /\ alarms[i].notificationIds = <<>>
            /\ ArmedFor("alarm", alarms[i].id) = {}

\* C7: a disabled alarm has no stored handle, in the list and in the store, and
\* every schedule request made for an alarm is made for an enabled one.
C7_DisabledNeverScheduled ==
    /\ \A i \in 1 .. Len(alarms) :
           ~alarms[i].enabled => alarms[i].notificationIds = <<>>
    /\ \A row \in dbAlarms : row.enabled = 0 => ParseList(row.notificationIds) = <<>>
    /\ \A k \in 1 .. Len(calls) :
           (calls[k].op = "schedule" /\ calls[k].kind = "alarm") => calls[k].enabled

\* An enabled alarm with a handle was switched off.
C7_Witness ==
    /\ lastOp.op = "toggleAlarmEnabled" /\ lastOp.ok /\ lastOp.pre # <<>>
    /\ \E i \in 1 .. Len(alarms) :
           /\ alarms[i].id = lastOp.id
           /\ ~alarms[i].enabled
           /\ alarms[i].notificationIds = <<>>
    /\ \E k \in 1 .. Len(calls) : calls[k].op = "cancel"

\* C8: after a successful delete the entity is gone from the list and from the
\* store and every handle that was recorded for it has been cancelled: none of
\* them is still armed.
C8_DeleteReleasesHandles ==
    (lastOp.op \in {"deleteAlarm", "deleteEvent"} /\ lastOp.ok) =>
        /\ findIndex(alarms, lastOp.id) = 0 \/ lastOp.kind # "alarm"
        /\ findIndex(events, lastOp.id) = 0 \/ lastOp.kind # "event"
        /\ lastOp.kind = "alarm" => \A row \in dbAlarms : row.id # lastOp.id
        /\ lastOp.kind = "event" => \A row \in dbEvents : row.id # lastOp.id
        /\ \A i \in 1 .. Len(lastOp.pre) : ~IsArmed(World, lastOp.pre[i])

\* C9: when an update reschedules, every handle stored before it is cancelled
\* (no longer armed), the cancels coming before any notification is requested,
\* and the handles stored afterwards are all returned by the requests of this
\* call.
C9_RebuildNotDiff ==
    (lastOp.op \in {"updateAlarm", "toggleAlarmEnabled", "updateEvent"}
        /\ lastOp.resched) =>
        /\ \A i \in 1 .. Len(lastOp.pre) : ~IsArmed(World, lastOp.pre[i])
        /\ \A k, m \in 1 .. Len(calls) :
               (calls[k].op = "cancel" /\ calls[m].op = "schedule") => k < m
        /\ lastOp.ok =>
               LET ids == IF lastOp.kind = "alarm" THEN StoredIds(alarms, lastOp.id)
                          ELSE StoredIds(events, lastOp.id)
               IN  \A i \in 1 .. Len(ids) :
                       /\ ids[i] \notin Range(lastOp.pre)
                       /\ \E k \in 1 .. Len(calls) :
                              calls[k].op = "schedule" /\ calls[k].handle = ids[i]

\* The last operation ran cancelAlarmNotifications / cancelEventNotifications
\* on the handles stored for its entity.
CancelledStored ==
    \/ lastOp.op \in {"deleteAlarm", "deleteEvent"}
    \/ lastOp.op \in {"updateAlarm", "toggleAlarmEnabled", "updateEvent"} /\ lastOp.resched

\* C10: a failing cancel is ignored and the cancellation goes on: a cancel call
\* has been issued for every handle of the list.
C10_CancelContinuesAfterFailure ==
    CancelledStored => \A i \in 1 .. Len(lastOp.pre) : CancelledInCalls(lastOp.pre[i])

\* The last operation asked for notifications and got none: notifications are
\* off (never enabled, or permission denied), or every request was refused.
NoHandleGiven ==
    /\ lastOp.op \in {"addAlarm", "updateAlarm", "addEvent", "updateEvent"}
    /\ lastOp.resched
    /\ \/ ~notificationsEnabled
       \/ \A k \in 1 .. Len(calls) : calls[k].op = "schedule" => calls[k].handle = 0

\* The entity of the last operation is in the list and in the store, with the
\* handles ids in both.
SavedWith(ids) ==
    /\ lastOp.kind = "alarm" =>
           /\ findIndex(alarms, lastOp.id) # 0
           /\ StoredIds(alarms, lastOp.id) = ids
           /\ alarmRow(alarms[findIndex(alarms, lastOp.id)]) \in dbAlarms
    /\ lastOp.kind = "event" =>
           /\ findIndex(events, lastOp.id) # 0
           /\ StoredIds(events, lastOp.id) = ids
           /\ eventRow(events[findIndex(events, lastOp.id)]) \in dbEvents

C12_WriteFailureIsHard ==
    [][(lastWrite' = "failed" /\ lastOp'.kind = "alarm") =>
           /\ ~lastOp'.ok
           /\ error' = SqlError
           /\ isLoading' = FALSE
           /\ alarms' = alarms]_vars

\* The UPDATE of an updateAlarm that had rescheduled failed.
C12_Witness ==
    /\ lastWrite = "failed"
    /\ lastOp.op = "updateAlarm" /\ lastOp.resched /\ ~lastOp.ok
    /\ error = SqlError
    /\ ~isLoading
    /\ alarms # <<>>

\* The fire-times T - mi of an event's reminders that are strictly after the
\* clock, in the order of the reminders.
DueTimes(event) ==
    SelectSeq([i \in 1 .. Len(event.reminders) |->
                  FromTime(getTime(event.startDate) - event.reminders[i] * 60)],
              LAMBDA t : getTime(t) > getTime(now))

ScheduleCalls == SelectSeq(calls, LAMBDA c : c.op = "schedule")

\* The last operation ran scheduleEventNotifications, with notifications on, on
\* the event it then saved.
ScheduledEvent ==
    /\ lastOp.op \in {"addEvent", "updateEvent"}
    /\ lastOp.resched /\ lastOp.ok
    /\ notificationsEnabled

\* C13: scheduleEventNotifications requests one notification at T - mi for each
\* reminder whose fire-time is strictly after now and none for the others, and
\* returns the handles of the requests that the dispatcher accepted.
C13_ReminderExpansion ==
    ScheduledEvent =>
        LET event == events[findIndex(events, lastOp.id)]
            due == DueTimes(event)
        IN  /\ Len(ScheduleCalls) = Len(due)
            /\ \A k \in 1 .. Len(due) :
                   /\ ScheduleCalls[k].date = due[k]
                   /\ ScheduleCalls[k].kind = "event"
                   /\ ScheduleCalls[k].id = event.id
            /\ event.notificationIds =
                   [k \in 1 .. Len(SelectSeq(ScheduleCalls, LAMBDA c : c.handle # 0)) |->
                       SelectSeq(ScheduleCalls, LAMBDA c : c.handle # 0)[k].handle]

\* At 09:00 an event at 10:00 with reminders 60 and 0 minutes ahead: the first
\* is due exactly now and dropped, the second is requested.
C13_Witness ==
    /\ ScheduledEvent
    /\ now = MkDate(8, 9, 0, 0)
    /\ LET event == events[findIndex(events, lastOp.id)]
       IN  /\ event.startDate = MkDate(8, 10, 0, 0)
           /\ event.reminders = <<60, 0>>
           /\ Len(event.notificationIds) = 1
    /\ Len(ScheduleCalls) = 1
    /\ ScheduleCalls[1].date = MkDate(8, 10, 0, 0)

(***************************************************************************)
(* Properties of overlapping calls.                                        *)
(***************************************************************************)
\* The in-memory list shows the update of a finished updateAlarm call with the
\* handles the call produced.
ListReflects(proc) ==
    LET i == findIndex(alarms, proc.alarmId)
    IN  /\ i # 0
        /\ \A f \in DOMAIN proc.data : alarms[i][f] = proc.data[f]
        /\ alarms[i].notificationIds = proc.ids

\* The same of the alarm's row in the store.
StoreReflects(proc) ==
    \E row \in dbAlarms :
        /\ row.id = proc.alarmId
        /\ \A f \in DOMAIN proc.data :
               row[f] = alarmRow(merge(OverlapAlarm(proc.alarmId, TRUE, <<>>), proc.data))[f]
        /\ ParseList(row.notificationIds) = proc.ids

\* The run consists of two updateAlarm calls, a and b, on different alarms,
\* and both have resolved.
TwoUpdatesDone(a, b) ==
    /\ a # b
    /\ procs[a].op = "updateAlarm" /\ procs[a].pc = "resolved"
    /\ procs[b].op = "updateAlarm" /\ procs[b].pc = "resolved"
    /\ procs[a].alarmId # procs[b].alarmId
    /\ \A c \in 1 .. MaxCalls : c \notin {a, b} => Free(c)

\* C14: after two updateAlarm calls on two different alarms have both resolved,
\* however their steps interleaved, the in-memory list and the store reflect
\* both updates and each alarm has the handle set its own call produced.
C14_DifferentAlarmsCommute ==
    \A a, b \in 1 .. MaxCalls :
        TwoUpdatesDone(a, b) =>
            /\ ListReflects(procs[a]) /\ ListReflects(procs[b])
            /\ StoreReflects(procs[a]) /\ StoreReflects(procs[b])

Quiescent == \A slot \in 1 .. MaxCalls : ~InFlight(slot)

\* The armed notifications whose handle is in no stored handle set, of the list
\* or of the store.
Leaked ==
    {n \in armed :
        /\ \A i \in 1 .. Len(alarms) : n.handle \notin Range(alarms[i].notificationIds)
        /\ \A row \in dbAlarms : n.handle \notin Range(ParseList(row.notificationIds))}

\* C15: with no call in flight, a notification is armed under a handle that no
\* stored handle set holds only if two calls on the same alarm have overlapped
\* or a step has failed; and overlapping updateAlarm calls on one enabled alarm
\* do reach such a state.
C15_LeakOnlyByOverlap ==
    (Quiescent /\ ~unsafe) => Leaked = {}

\* Two updateAlarm calls on the enabled alarm overlapped, both resolved, and a
\* notification is left armed that no handle set records.
SameAlarmLeak ==
    /\ Quiescent
    /\ procs[1].op = "updateAlarm" /\ procs[1].pc = "resolved" /\ procs[1].alarmId = 1
    /\ procs[2].op = "updateAlarm" /\ procs[2].pc = "resolved" /\ procs[2].alarmId = 1
    /\ Free(3)
    /\ Leaked # {}

Settled(slot) == procs[slot].pc \in {"resolved", "rejected"}

\* C16: on both platform branches of getDatabase, every call of addAlarm,
\* updateAlarm and deleteAlarm that has started eventually resolves or rejects,
\* and isLoading eventually returns to false.
C16_EveryCallSettles ==
    /\ \A slot \in 1 .. MaxCalls : InFlight(slot) ~> Settled(slot)
    /\ isLoading ~> ~isLoading

RowIds(rows, id) ==
    IF \E row \in rows : row.id = id
    THEN ParseList((CHOOSE row \in rows : row.id = id).notificationIds)
    ELSE <<>>

\* C18: an updateAlarm whose update carries none of enabled, hour, minute, days,
\* date, isOneTime makes no cancel and no schedule call, leaves the dispatcher
\* as it was, and leaves the alarm's notificationIds unchanged in the list and
\* in the row.
C18_UnrelatedEditNoReconcile ==
    [][(lastOp'.op = "updateAlarm" /\ ~lastOp'.touches) =>
          /\ calls' = <<>>
          /\ armed' = armed
          /\ StoredIds(alarms', lastOp'.id) = StoredIds(alarms, lastOp'.id)
          /\ RowIds(dbAlarms', lastOp'.id) = RowIds(dbAlarms, lastOp'.id)]_vars

\* An enabled alarm with an armed handle has just had its vibrate field changed.
C18_Witness ==
    /\ lastOp.op = "updateAlarm" /\ lastOp.ok /\ ~lastOp.touches
    /\ lastOp.pre # <<>>
    /\ \E i \in 1 .. Len(alarms) :
           /\ alarms[i].id = lastOp.id
           /\ ~alarms[i].vibrate
           /\ alarms[i].notificationIds = lastOp.pre
    /\ calls = <<>>

(***************************************************************************)
(* Edge cases of getNextAlarmDate.                                         *)
(***************************************************************************)
OnlyToday(alarm, at) == IsRecurring(alarm) /\ Range(alarm.days) = {getDay(at)}

MinuteOfDay(hour, minute) == hour * 60 + minute

\* C20: for a recurring alarm whose only listed weekday is today, the result is
\* the instant 7 days ahead at hour:minute when now's hour:minute is the
\* alarm's or later, at any second, and today's instant when it is earlier.
C20_SameMinuteIsNextWeek ==
    (calcPc = "done" /\ OnlyToday(calcAlarm, calcNow)) =>
        IF MinuteOfDay(calcNow.hour, calcNow.minute)
               >= MinuteOfDay(calcAlarm.hour, calcAlarm.minute)
        THEN calcResult = MkDate(calcNow.day + 7, calcAlarm.hour, calcAlarm.minute, 0)
        ELSE calcResult = MkDate(calcNow.day, calcAlarm.hour, calcAlarm.minute, 0)

\* Wednesday 23:59:00, alarm on Wednesdays at 23:59: next Wednesday.
C20_Witness ==
    /\ calcPc = "done"
    /\ calcAlarm.days = <<3>> /\ ~calcAlarm.isOneTime
    /\ calcAlarm.hour = 23 /\ calcAlarm.minute = 59
    /\ calcNow = MkDate(10, 23, 59, 0)
    /\ calcResult = MkDate(17, 23, 59, 0)

\* A time spec with no occurrence: recurring with no weekday, or one-time with
\* no date.
Malformed(alarm) ==
    \/ ~alarm.isOneTime /\ alarm.days = <<>>
    \/ alarm.isOneTime /\ alarm.date = Null

\* C19: for an alarm that is recurring with an empty days list, or one-time with
\* no date, getNextAlarmDate returns null, and an addAlarm or updateAlarm that
\* leaves the alarm so, enabled or not, makes no schedule request, ends without
\* error when its write is accepted, and leaves the stored handle set empty in
\* the list and in the row.
C19_MalformedIsNoOccurrence ==
    /\ \A input \in AlarmInputs :
           Malformed(input) =>
               \A k \in 1 .. Len(SysInstants) :
                   getNextAlarmDate(input, SysInstants[k]) = Null
    /\ \A i \in 1 .. Len(alarms) :
           (/\ lastOp.op \in {"addAlarm", "updateAlarm"}
            /\ lastOp.id = alarms[i].id
            /\ lastWrite = "ok"
            /\ Malformed(alarms[i])) =>
               /\ getNextAlarmDate(alarms[i], now) = Null
               /\ \A k \in 1 .. Len(calls) : calls[k].op # "schedule"
               /\ lastOp.ok /\ error = NoError
               /\ alarms[i].notificationIds = <<>>
               /\ RowIds(dbAlarms, alarms[i].id) = <<>>

\* An enabled alarm with an armed handle has its days emptied while
\* notifications are on: the handle is cancelled and nothing is scheduled.
C19_Witness ==
    /\ lastOp.op = "updateAlarm" /\ lastOp.ok /\ lastOp.touches /\ lastOp.pre # <<>>
    /\ notificationsEnabled
    /\ \E i \in 1 .. Len(alarms) :
           /\ alarms[i].id = lastOp.id
           /\ alarms[i].enabled /\ ~alarms[i].isOneTime /\ alarms[i].days = <<>>
           /\ alarms[i].notificationIds = <<>>
    /\ \E k \in 1 .. Len(calls) : calls[k].op = "cancel"
    /\ ArmedFor("alarm", lastOp.id) = {}

(***************************************************************************)
(* Properties of the repeated call.                                        *)
(***************************************************************************)
FireTimes(notifications) == {n.date : n \in notifications}

\* Position of the first request of the operation to arm a notification, or
\* one past the end of the log.
FirstSchedule ==
    IF \E k \in 1 .. Len(calls) : calls[k].op = "schedule"
    THEN CHOOSE k \in 1 .. Len(calls) :
             calls[k].op = "schedule" /\ \A j \in 1 .. (k - 1) : calls[j].op # "schedule"
    ELSE Len(calls) + 1

\* C17: when updateAlarm is called twice in succession with the same
\* schedule-affecting fields at the same now, both calls succeeding with no
\* request refused, the alarm has after the second call as many stored handles
\* and the same armed fire-times as after the first; the handles of the first
\* call are cancelled, before anything is scheduled, and are not among the new
\* ones; and the dispatcher holds no more notifications for the alarm than
\* after the first call.
C17_UpdateTwiceIdempotent ==
    (twice.pc = "twice" /\ twice.clean /\ lastOp.ok /\ NoScheduleRefused) =>
        /\ Len(StoredIds(alarms, twice.id)) = Len(twice.ids)
        /\ FireTimes(ArmedFor("alarm", twice.id)) = FireTimes(twice.armed)
        /\ Cardinality(ArmedFor("alarm", twice.id)) <= Cardinality(twice.armed)
        /\ {n.handle : n \in ArmedFor("alarm", twice.id)} = Range(StoredIds(alarms, twice.id))
        /\ \A h \in Range(twice.ids) :
               /\ h \notin Range(StoredIds(alarms, twice.id))
               /\ ~IsArmed(World, h)
               /\ \E j \in 1 .. (FirstSchedule - 1) : calls[j] = CancelCall(h)

\* An alarm rescheduled twice to the same hour: one handle each time, the second
\* a new one with the same fire-time.
C17_Witness ==
    /\ twice.pc = "twice" /\ twice.clean /\ lastOp.ok /\ NoScheduleRefused
    /\ Len(twice.ids) = 1
    /\ Len(StoredIds(alarms, twice.id)) = 1
    /\ StoredIds(alarms, twice.id) # twice.ids
    /\ FireTimes(ArmedFor("alarm", twice.id)) = FireTimes(twice.armed)
    /\ FireTimes(twice.armed) # {}

(***************************************************************************)
(* Properties of both stores.                                              *)
(***************************************************************************)
\* C21: every alarm has at most one handle in notificationIds, and an event
\* never has more handles in notificationIds than it has reminders.
C21_SingleReminder ==
    /\ \A i \in 1 .. Len(alarms) : Len(alarms[i].notificationIds) <= 1
    /\ \A j \in 1 .. Len(events) :
           Len(events[j].notificationIds) <= Len(events[j].reminders)

\* An alarm that held a handle has been rescheduled and holds one other handle.
C21_Witness ==
    /\ lastOp.op \in {"updateAlarm", "toggleAlarmEnabled"} /\ lastOp.ok
    /\ Len(lastOp.pre) = 1
    /\ Len(StoredIds(alarms, lastOp.id)) = 1
    /\ StoredIds(alarms, lastOp.id) # lastOp.pre

(***************************************************************************)
(* The list as a cache of the rows.                                        *)
(***************************************************************************)
\* The in-memory list holds one element per row, with the row's values.
Coherent ==
    /\ {alarmRow(alarms[i]) : i \in 1 .. Len(alarms)} = dbAlarms
    /\ \A i, j \in 1 .. Len(alarms) : alarms[i].id = alarms[j].id => i = j

\* C23: with no call in flight, after overlapping addAlarm, updateAlarm and
\* deleteAlarm calls on different alarms, none of whose steps failed, the
\* in-memory list equals the rows of the store: same ids, same values, same
\* handle sets.
C23_CacheCoherent ==
    (Quiescent /\ ~unsafe) => Coherent

\* A completed deleteAlarm has removed an alarm's row, a call on another alarm
\* has resolved after it, and the alarm is in the list.
DeletedReappears ==
    /\ Quiescent /\ ~unsafe
    /\ \E a, b \in 1 .. MaxCalls :
           /\ procs[a].op = "deleteAlarm" /\ procs[a].pc = "resolved"
           /\ procs[b].op = "updateAlarm" /\ procs[b].pc = "resolved"
           /\ procs[a].alarmId # procs[b].alarmId
           /\ \A row \in dbAlarms : row.id # procs[a].alarmId
           /\ \E i \in 1 .. Len(alarms) : alarms[i].id = procs[a].alarmId

(***************************************************************************)
(* The flag of the notification context and the dispatcher.                *)
(***************************************************************************)
\* C25: while notificationsEnabled is false no notification is armed at the
\* dispatcher.
C25_OffMeansNothingArmed ==
    ~notificationsEnabled => armed = {}

\* C24: when the store write of addAlarm or updateAlarm fails, the notifications
\* armed at the dispatcher are those armed before the call.
C24_FailedWriteLeavesDispatcher ==
    [][(lastWrite' = "failed" /\ lastOp'.op \in {"addAlarm", "updateAlarm"}) =>
          armed' = armed]_vars

(***************************************************************************)
(* Properties of the task store.                                           *)
(***************************************************************************)
HasFutureDeadline(task) ==
    \/ task.remindAt # Null /\ getTime(task.remindAt) > getTime(now)
    \/ task.dueDate # Null /\ getTime(task.dueDate) > getTime(now)

\* C22: with notifications enabled, after a successful addTask or updateTask of
\* a task with a future remindAt or dueDate, a notification has been requested
\* from the dispatcher for the task and its handle is in the task's
\* notificationId.
C22_TaskDeadlineNotified ==
    (notificationsEnabled /\ lastOp.op \in {"addTask", "updateTask"} /\ lastOp.ok) =>
        \A i \in 1 .. Len(tasks) :
            (tasks[i].id = lastOp.id /\ HasFutureDeadline(tasks[i])) =>
                /\ \E k \in 1 .. Len(calls) :
                       calls[k].op = "schedule" /\ calls[k].kind = "task"
                                                /\ calls[k].id = tasks[i].id
                /\ tasks[i].notificationId # 0

(***************************************************************************)
(* Properties of the custom calendars.                                     *)
(***************************************************************************)
\* The calendar is the same but for its isDefault flag.
SameButDefault(before, after) == [after EXCEPT !.isDefault = before.isDefault] = before

\* C26: after a successful updateCustomCalendar of a calendar that agreed with
\* its row, the in-memory calendar equals the row the update wrote, which has
\* every field of the update applied, also when the update makes the calendar
\* the default; the other calendars change at most in isDefault.
C26_UpdateAppliesAllFields ==
    [][(lastOp'.op = "updateCustomCalendar" /\ lastOp'.ok) =>
          LET i == findIndex(customCalendars, lastOp'.id)
          IN  calendarRow(customCalendars[i]) \in dbCalendars =>
                  /\ Len(customCalendars') = Len(customCalendars)
                  /\ calendarRow(customCalendars'[i]) \in dbCalendars'
                  /\ \A j \in 1 .. Len(customCalendars) :
                         j # i => SameButDefault(customCalendars[j], customCalendars'[j])]_vars

Defaults == {i \in 1 .. Len(customCalendars) : customCalendars[i].isDefault}

Unlinked(before, after, field, id) ==
    /\ Len(after) = Len(before)
    /\ \A i \in 1 .. Len(before) :
           /\ after[i][field] # id
           /\ after[i] = [before[i] EXCEPT ![field] = after[i][field]]
           /\ before[i][field] # id => after[i] = before[i]

\* C28: after a successful deleteCategory(c), deleteFolder(f) or
\* deleteCustomCalendar(k) no in-memory task refers to c, no note to f and no
\* event to k, and every task, note and event is still there, its other fields
\* as they were.
C28_NoDanglingReference ==
    [][lastOp'.ok =>
          /\ lastOp'.op = "deleteCategory" =>
                 Unlinked(tasks, tasks', "categoryId", lastOp'.id)
          /\ lastOp'.op = "deleteFolder" =>
                 Unlinked(notes, notes', "folderId", lastOp'.id)
          /\ lastOp'.op = "deleteCustomCalendar" =>
                 Unlinked(events, events', "calendarId", lastOp'.id)]_vars

\* The calendar just deleted held an event, which is still there, refers to no
\* calendar and has its row unlinked as well.
C28_Witness ==
    /\ lastOp.op = "deleteCustomCalendar" /\ lastOp.ok /\ lastOp.pre # <<>>
    /\ Len(events) = MaxEvents
    /\ \A i \in 1 .. Len(events) : events[i].calendarId = 0
    /\ \A r \in dbEvents : r.calendarId = 0
    /\ findIndex(customCalendars, lastOp.id) = 0
\* C29: isLoading of the alarm store is true whenever one of its operations is
\* in flight and false once all have completed, also when fetchAlarms and
\* fetchAlarmSounds were started together and one has finished before the other.
C29_LoadingWhileInFlight ==
    isLoading <=> \E slot \in 1 .. MaxCalls : Fetching(slot)

\* C30: deleteAlarmSound of a sound with isBuiltIn true ends with 'Cannot delete
\* built-in sounds' and of an unknown id with 'Sound not found', without a write
\* to the store and with alarmSounds and alarms as they were; and no
\* deleteAlarmSound removes a built-in sound from alarmSounds.
C30_BuiltInSoundsStay ==
    [][lastOp'.op = "deleteAlarmSound" =>
          LET i == findIndex(alarmSounds, lastOp'.id)
              refused == /\ ~lastOp'.ok
                         /\ lastWrite' = "none"
                         /\ UNCHANGED <<alarmSounds, alarms, dbSounds, dbAlarms>>
          IN  /\ i = 0 => (refused /\ error' = SoundNotFound)
              /\ (i # 0 /\ alarmSounds[i].isBuiltIn) =>
                     (refused /\ error' = CannotDeleteBuiltIn)
              /\ \A j \in 1 .. Len(alarmSounds) :
                     alarmSounds[j].isBuiltIn =>
                         \E k \in 1 .. Len(alarmSounds') : alarmSounds'[k] = alarmSounds[j]]_vars

\* deleteAlarmSound has just been refused for a built-in sound, which is still
\* among the fetched sounds and in the table, next to fetched alarms.
C30_Witness ==
    /\ lastOp.op = "deleteAlarmSound" /\ ~lastOp.ok
    /\ error = CannotDeleteBuiltIn
    /\ findIndex(alarmSounds, lastOp.id) # 0
    /\ alarmSounds[findIndex(alarmSounds, lastOp.id)].isBuiltIn
    /\ \E k \in 1 .. Len(dbSounds) : dbSounds[k].id = lastOp.id
    /\ Len(alarms) > 0

====
